---- MODULE Spec2Model ----
(***************************************************************************)
(* A model of the MIX emulator of zachross015/mixal: the Word data model   *)
(* (word.rs), the field primitives and the instruction semantics           *)
(* (instruction.rs), and the decoder and run loop of Computer              *)
(* (computer.rs).                                                          *)
(*                                                                         *)
(* Words are records [positive, bytes] with bytes a function on 0..4, as   *)
(* the code indexes them.  i64 / i128 intermediate values do not fit the   *)
(* model checker's integers, so they are kept in sign-magnitude form with  *)
(* a little-endian base-256 magnitude (Num); every operation on them is    *)
(* exact.  The 4000-word memory is kept as the finite map of its cells     *)
(* that differ from Word::default().                                       *)
(***************************************************************************)
EXTENDS Integers, Sequences, FiniteSets, TLC

(***************************************************************************)
(* Program constants                                                       *)
(***************************************************************************)
\* computer.rs: memory: [Word; 4000]; the run loop stops at pc == 4000
MemorySize == 4000
\* tests.rs: const ADDRESS: usize = 2000
ADDRESS == 2000
\* number of base-256 digits kept for an i64 intermediate value
NumDigits == 8
\* number of base-256 digits of an i128 intermediate value
WideDigits == 16

(***************************************************************************)
(* Bounds of the model                                                     *)
(***************************************************************************)
\* number of set-up instructions that precede the instruction under test
\* in the memory images Init draws
Setups == 2
\* number of default cells between the instruction under test and the end
\* of memory
TailCells == 1
\* the shift amounts 0..MaxShift
MaxShift == 7
\* the double-word shift amounts 0..MaxDoubleShift
MaxDoubleShift == 12

(***************************************************************************)
(* word.rs: Word                                                           *)
(***************************************************************************)
Byte == 0..255

Word_new(positive, b) ==
    [positive |-> positive, bytes |-> [i \in 0..4 |-> b[i + 1]]]

Word_default == Word_new(TRUE, <<0, 0, 0, 0, 0>>)

Word_negate(w) == [w EXCEPT !.positive = ~w.positive]

Word_index(w) == w.bytes[2]

Word_field(w) == w.bytes[3]

Word_opcode(w) == w.bytes[4]

(***************************************************************************)
(* Exact integers: [neg, mag], mag[k] the digit of weight 256^k.  Zero is  *)
(* always [neg |-> FALSE].                                                 *)
(***************************************************************************)
NumZeroMag == [k \in 0..(NumDigits - 1) |-> 0]

NumIsZero(n) == \A k \in DOMAIN n.mag : n.mag[k] = 0

NumNorm(neg, mag) ==
    [neg |-> neg /\ (\E k \in DOMAIN mag : mag[k] # 0), mag |-> mag]

\* a small natural number as a Num
NumFromNat(v) ==
    [neg |-> FALSE,
     mag |-> [k \in 0..(NumDigits - 1) |->
                 IF k <= 3 THEN (v \div (256 ^ k)) % 256 ELSE 0]]

\* the value of a Num known to be below 2^24 in magnitude
NumToInt(n) ==
    (IF n.neg THEN -1 ELSE 1)
      * (n.mag[0] + 256 * n.mag[1] + 65536 * n.mag[2])

NumFitsInt(n) == \A k \in DOMAIN n.mag : k >= 3 => n.mag[k] = 0

\* a < b on magnitudes
MagLess(a, b) ==
    \E k \in DOMAIN a :
        /\ a[k] < b[k]
        /\ \A j \in DOMAIN a : j > k => a[j] = b[j]

MagAdd(a, b) ==
    LET carry[k \in 0..NumDigits] ==
            IF k = 0 THEN 0 ELSE (a[k - 1] + b[k - 1] + carry[k - 1]) \div 256
    IN  [k \in 0..(NumDigits - 1) |-> (a[k] + b[k] + carry[k]) % 256]

\* a - b on magnitudes, for b <= a
MagSub(a, b) ==
    LET borrow[k \in 0..NumDigits] ==
            IF k = 0 THEN 0
            ELSE IF a[k - 1] - b[k - 1] - borrow[k - 1] < 0 THEN 1 ELSE 0
    IN  [k \in 0..(NumDigits - 1) |-> (a[k] - b[k] - borrow[k]) % 256]

\* x + y on i64 values (no operand of the program reaches the i64 limits)
NumAdd(x, y) ==
    IF x.neg = y.neg THEN NumNorm(x.neg, MagAdd(x.mag, y.mag))
    ELSE IF MagLess(x.mag, y.mag) THEN NumNorm(y.neg, MagSub(y.mag, x.mag))
    ELSE NumNorm(x.neg, MagSub(x.mag, y.mag))

(***************************************************************************)
(* instruction.rs: adjusted_field_specification                            *)
(* A field specification is the pair <<left, right>>.                      *)
(***************************************************************************)
Max(a, b) == IF a >= b THEN a ELSE b

Min(a, b) == IF a <= b THEN a ELSE b

adjusted_field_specification(fs) ==
    [zero_included |-> fs[1] = 0,
     only_zero     |-> fs[2] = 0,
     l             |-> Max(fs[1], 1) - 1,
     r             |-> Max(fs[2], 1) - 1]

(***************************************************************************)
(* word.rs: Word::field_value, Word::address, Word::from_value             *)
(***************************************************************************)
\* field_value indexes bytes[l] and then bytes[l+1..=r]: it panics when one
\* of these indices is past the word
Word_field_value_panics(fs) ==
    LET a == adjusted_field_specification(fs)
    IN  ~a.only_zero /\ (a.l > 4 \/ (a.r > a.l /\ a.r > 4))

Word_field_value(w, fs) ==
    LET a == adjusted_field_specification(fs)
        \* the loop (l+1)..=r is empty when r <= l
        top == Max(a.l, a.r)
        mag == [k \in 0..(NumDigits - 1) |->
                   IF k <= top - a.l THEN w.bytes[top - k] ELSE 0]
    IN  IF a.only_zero THEN NumFromNat(0)
        ELSE NumNorm(a.zero_included /\ ~w.positive, mag)

Word_address(w) == NumToInt(Word_field_value(w, <<1, 2>>))

\* from_value(value: i64): bytes[4 - i] = (value % 256) as u8; value >>= 8.
\* Every caller passes a usize below 2^31, for which bytes[0] (weight 2^32)
\* is 0.  The sign is `value < 0`.
Word_from_value(value) ==
    [positive |-> value < 0,
     bytes    |-> [i \in 0..4 |->
                     IF i = 0 THEN 0 ELSE (value \div (256 ^ (4 - i))) % 256]]

(***************************************************************************)
(* instruction.rs: the field primitives                                    *)
(***************************************************************************)
\* word_zero_condition!: `return` is taken when zero is included and is the
\* only part of the field
word_zero_condition_returns(a) == a.zero_included /\ a.only_zero

\* the loop l..=r indexes bytes[i]: it panics when it reaches index 5
copy_word_fields_panics(fs) ==
    LET a == adjusted_field_specification(fs)
    IN  ~word_zero_condition_returns(a) /\ a.l <= a.r /\ a.r > 4

\* faulty variant: the sign is copied whatever the field
copy_word_fields_sign_always(from_word, to_word, fs) ==
    LET a == adjusted_field_specification(fs)
    IN  [positive |-> from_word.positive,
         bytes    |-> [i \in 0..4 |->
                         IF /\ ~word_zero_condition_returns(a)
                            /\ a.l <= i
                            /\ i <= a.r
                         THEN from_word.bytes[i]
                         ELSE to_word.bytes[i]]]

copy_word_fields(from_word, to_word, fs) ==
    LET a == adjusted_field_specification(fs)
    IN  [positive |-> IF a.zero_included THEN from_word.positive
                      ELSE to_word.positive,
         bytes    |-> [i \in 0..4 |->
                         IF /\ ~word_zero_condition_returns(a)
                            /\ a.l <= i
                            /\ i <= a.r
                         THEN from_word.bytes[i]
                         ELSE to_word.bytes[i]]]

\* faulty variant: the test for the sign being part of the field is left out
copy_word_fields_i_panics_without_sign(fs) ==
    LET a == adjusted_field_specification(fs)
    IN  a.l \in 0..2 /\ a.r \in 0..2

\* panic!("Invalid field specification given for index ...")
copy_word_fields_i_panics(fs) ==
    LET a == adjusted_field_specification(fs)
    IN  a.l \in 0..2 /\ a.r \in 0..2 /\ ~a.zero_included

copy_word_fields_i(from_word, to_word, fs) ==
    LET a == adjusted_field_specification(fs)
    IN  [positive |-> IF a.zero_included THEN from_word.positive
                      ELSE to_word.positive,
         bytes    |-> [i \in 0..4 |->
                         IF /\ ~word_zero_condition_returns(a)
                            /\ Max(a.l, 3) <= i
                            /\ i <= Min(a.r, 4)
                         THEN from_word.bytes[i]
                         ELSE to_word.bytes[i]]]

\* offset_l = 4 - (r - l) underflows (a panic, or an index past the word in
\* a build without overflow checks) when r < l or r - l > 4; to_word.bytes[l + i]
\* panics when it reaches index 5
store_operation_panics(fs) ==
    LET a == adjusted_field_specification(fs)
    IN  ~word_zero_condition_returns(a) /\ (a.r < a.l \/ a.r > 4)

\* faulty variant: the source bytes are taken from the window's own
\* positions, as copy_word_fields does
store_operation_left_justified(from_word, to_word, fs) ==
    LET a == adjusted_field_specification(fs)
    IN  [positive |-> IF a.zero_included THEN from_word.positive
                      ELSE to_word.positive,
         bytes    |-> [i \in 0..4 |->
                         IF /\ ~word_zero_condition_returns(a)
                            /\ a.l <= i
                            /\ i <= a.r
                         THEN from_word.bytes[i]
                         ELSE to_word.bytes[i]]]

store_operation(from_word, to_word, fs) ==
    LET a == adjusted_field_specification(fs)
        offset_l == 4 - (a.r - a.l)
    IN  [positive |-> IF a.zero_included THEN from_word.positive
                      ELSE to_word.positive,
         bytes    |-> [i \in 0..4 |->
                         IF /\ ~word_zero_condition_returns(a)
                            /\ a.l <= i
                            /\ i <= a.r
                            /\ offset_l >= 0
                         THEN from_word.bytes[offset_l + (i - a.l)]
                         ELSE to_word.bytes[i]]]

\* "none", or the panic add_words ends in
add_words_fault(fs) ==
    LET a == adjusted_field_specification(fs)
    IN  IF a.only_zero THEN "ArithmeticDomainFault"
        ELSE IF Word_field_value_panics(fs) THEN "IndexOutOfBounds"
        ELSE "none"

\* faulty variant: overflow is reported only for a sum that does not fit in
\* the five bytes of a word
add_words_word_overflow(word1, word2, fs) ==
    LET a     == adjusted_field_specification(fs)
        sum   == NumAdd(Word_field_value(word1, fs), Word_field_value(word2, fs))
    IN  [word     |-> [positive |-> IF a.zero_included THEN ~sum.neg ELSE TRUE,
                       bytes    |-> [i \in 0..4 |->
                                       IF a.l <= i /\ i <= a.r
                                       THEN sum.mag[a.r - i] ELSE 0]],
         overflow |-> \E k \in DOMAIN sum.mag : k >= 5 /\ sum.mag[k] # 0]

\* [word, overflow]
add_words(word1, word2, fs) ==
    LET a     == adjusted_field_specification(fs)
        sum   == NumAdd(Word_field_value(word1, fs), Word_field_value(word2, fs))
        \* number of bytes the loop (l..=r).rev() writes
        n     == IF a.l <= a.r THEN a.r - a.l + 1 ELSE 0
    IN  [word     |-> [positive |-> IF a.zero_included THEN ~sum.neg ELSE TRUE,
                       bytes    |-> [i \in 0..4 |->
                                       IF a.l <= i /\ i <= a.r
                                       THEN sum.mag[a.r - i] ELSE 0]],
         overflow |-> \E k \in DOMAIN sum.mag : k >= n /\ sum.mag[k] # 0]

(***************************************************************************)
(* i128 arithmetic of multiply_words and divide_words, on magnitudes of    *)
(* WideDigits digits (operands of the program stay below 2^80).            *)
(***************************************************************************)
WideMag(m) == [k \in 0..(WideDigits - 1) |-> IF k \in DOMAIN m THEN m[k] ELSE 0]

WideIsZero(m) == \A k \in DOMAIN m : m[k] = 0

\* a * b
WideMul(a, b) ==
    LET column(k) ==
            LET s[i \in 0..k] == a[i] * b[k - i] + (IF i = 0 THEN 0 ELSE s[i - 1])
            IN  s[k]
        carry[k \in 0..(WideDigits - 1)] ==
            IF k = 0 THEN 0 ELSE (column(k - 1) + carry[k - 1]) \div 256
    IN  [k \in 0..(WideDigits - 1) |-> (column(k) + carry[k]) % 256]

\* a - b, for b <= a
WideSub(a, b) ==
    LET borrow[k \in 0..WideDigits] ==
            IF k = 0 THEN 0
            ELSE IF a[k - 1] - b[k - 1] - borrow[k - 1] < 0 THEN 1 ELSE 0
    IN  [k \in 0..(WideDigits - 1) |-> (a[k] - b[k] - borrow[k]) % 256]

\* the function f with its values computed
Computed(f) == f @@ (0 :> 0)

\* 16 * m + digit, for a hexadecimal digit
WideShift(m, digit) ==
    [k \in 0..(WideDigits - 1) |->
        (16 * m[k] + (IF k = 0 THEN digit ELSE m[k - 1] \div 16)) % 256]

\* hexadecimal digit j of m
WideHex(m, j) == (m[j \div 2] \div (16 ^ (j % 2))) % 16

\* q * m for m < 2^40 and q <= 16, on the halves of m below and above 2^24
WideTimes(m, q) ==
    LET low  == q * (m[0] + 256 * m[1] + 65536 * m[2])
        high == q * (m[3] + 256 * m[4]) + low \div 16777216
    IN  [k \in 0..(WideDigits - 1) |->
            IF k < 3 THEN (low \div (256 ^ k)) % 256
            ELSE IF k < 7 THEN (high \div (256 ^ (k - 3))) % 256
            ELSE 0]

\* one step of the long division: the next hexadecimal digit of n is
\* shifted into the remainder, and d is taken from it as often as it fits
WideDivStep(n, d, k, acc) ==
    LET rem2 == Computed(WideShift(acc.rem, WideHex(n, k - 1)))
        q == CHOOSE q \in 0..15 :
                 /\ ~MagLess(rem2, Computed(WideTimes(d, q)))
                 /\ MagLess(rem2, Computed(WideTimes(d, q + 1)))
    IN  [quo |-> Computed(WideShift(acc.quo, q)),
         rem |-> Computed(WideSub(rem2, Computed(WideTimes(d, q))))]

\* long division, one hexadecimal digit of n at a time from digit k - 1
\* down: acc holds the quotient and the remainder of the digits above.  The
\* bound variables hold the values of one step for the next.
RECURSIVE WideDivLoop(_, _, _, _)
WideDivLoop(n, d, k, acc) ==
    IF k = 0 THEN acc
    ELSE CHOOSE r \in { WideDivLoop(n2, d2, k2, acc2) :
                            n2 \in {n}, d2 \in {d}, k2 \in {k - 1},
                            acc2 \in {WideDivStep(n, d, k, acc)} } : TRUE

\* [quo, rem] of n / d, for n < 2^80 and 0 < d < 2^40
WideDivMod(n, d) ==
    CHOOSE r \in { WideDivLoop(n2, d2, 20, [quo |-> zero, rem |-> zero]) :
                       n2 \in {Computed(n)}, d2 \in {Computed(d)},
                       zero \in {Computed(WideMag(<<>>))} } : TRUE

\* the five low-order bytes of a magnitude, most significant first, as the
\* loop `bytes[i] = (v % 256) as u8; v >>= 8` over (0..=4).rev() writes them
LowBytes(m) == [i \in 0..4 |-> m[4 - i]]

\* the same loop on a negative i64 v = -m: `%` yields -(m % 256), `as u8`
\* wraps it and `>>` rounds down, which leaves the two's complement of m
LowBytesOfNegative(m) ==
    LET borrow[k \in 0..5] ==
            IF k = 0 THEN 0
            ELSE IF 0 - m[k - 1] - borrow[k - 1] < 0 THEN 1 ELSE 0
    IN  [i \in 0..4 |-> (0 - m[4 - i] - borrow[4 - i]) % 256]

(***************************************************************************)
(* instruction.rs: multiply_words, divide_words                            *)
(***************************************************************************)
\* "none", or the panic multiply_words ends in
multiply_words_fault(fs) ==
    LET a == adjusted_field_specification(fs)
    IN  IF Word_field_value_panics(fs) THEN "IndexOutOfBounds"
        ELSE IF a.only_zero THEN "ArithmeticDomainFault"
        ELSE "none"

\* faulty variant: the first operand is read over the field as well
multiply_words_both_windowed(word1, word2, fs) ==
    LET a  == adjusted_field_specification(fs)
        v1 == Word_field_value(word1, fs)
        v2 == Word_field_value(word2, fs)
        product == WideMul(WideMag(v1.mag), WideMag(v2.mag))
        negative == v1.neg # v2.neg /\ ~WideIsZero(product)
        positive == IF a.zero_included THEN ~negative ELSE TRUE
    IN  [upper |-> [positive |-> positive,
                    bytes    |-> [i \in 0..4 |-> product[9 - i]]],
         lower |-> [positive |-> positive,
                    bytes    |-> [i \in 0..4 |-> product[4 - i]]]]

\* [upper, lower]: the pair (word_upper, word_lower) it returns
multiply_words(word1, word2, fs) ==
    LET a  == adjusted_field_specification(fs)
        v1 == Word_field_value(word1, <<0, 5>>)
        v2 == Word_field_value(word2, fs)
        product == WideMul(WideMag(v1.mag), WideMag(v2.mag))
        negative == v1.neg # v2.neg /\ ~WideIsZero(product)
        positive == IF a.zero_included THEN ~negative ELSE TRUE
    IN  [upper |-> [positive |-> positive,
                    bytes    |-> [i \in 0..4 |-> product[9 - i]]],
         lower |-> [positive |-> positive,
                    bytes    |-> [i \in 0..4 |-> product[4 - i]]]]

\* "none", or the panic divide_words ends in: a divisor of value 0 returns
\* before the field is looked at
divide_words_fault(word3, fs) ==
    LET a == adjusted_field_specification(fs)
    IN  IF Word_field_value_panics(fs) THEN "IndexOutOfBounds"
        ELSE IF NumIsZero(Word_field_value(word3, fs)) THEN "none"
        ELSE IF a.only_zero THEN "ArithmeticDomainFault"
        ELSE "none"

\* [div, rem, divide_by_zero]: the triple (word_div, word_rem, bool) it
\* returns; `/` truncates toward zero and `%` takes the sign of the
\* dividend, which is never negative
divide_words(word1, word2, word3, fs) ==
    LET a  == adjusted_field_specification(fs)
        divisor_value == Word_field_value(word3, fs)
        hi == Word_field_value(word1, <<1, 5>>).mag
        lo == Word_field_value(word2, <<1, 5>>).mag
        word_value == [k \in 0..(WideDigits - 1) |->
                          IF k <= 4 THEN lo[k]
                          ELSE IF k <= 9 THEN hi[k - 5] ELSE 0]
        Result(qr) ==
            [div |-> [positive |-> IF a.zero_included
                                   THEN word1.positive = word3.positive
                                   ELSE TRUE,
                      bytes    |-> IF divisor_value.neg
                                   THEN LowBytesOfNegative(qr.quo)
                                   ELSE LowBytes(qr.quo)],
             rem |-> [positive |-> word1.positive,
                      bytes    |-> LowBytes(qr.rem)],
             divide_by_zero |-> FALSE]
    IN  IF NumIsZero(divisor_value)
        THEN [div |-> Word_default, rem |-> Word_default, divide_by_zero |-> TRUE]
        ELSE CHOOSE res \in
                 { Result(qr) :
                     qr \in {WideDivMod(word_value, WideMag(divisor_value.mag))} } :
                 TRUE

(***************************************************************************)
(* instruction_functions.rs: single_word_left_shift,                       *)
(* single_word_right_shift.  An outcome is the word returned, or the panic *)
(* that ended the call.                                                    *)
(***************************************************************************)
Returned(w) == [word |-> w, fault |-> "none"]

Panicked(f) == [word |-> Word_default, fault |-> f]

\* `(5 - amount).max(0)..5` is computed on usize: for amount > 5 the
\* subtraction panics in a build with overflow checks and wraps in a build
\* without them, to a bound past 5 and hence an empty range
single_word_left_shift(word, amount, cycle) ==
    LET r_copy == [i \in 0..4 |-> word.bytes[(amount + i) % 5]]
        zeroed == [i \in 0..4 |-> IF i >= 5 - amount THEN 0 ELSE r_copy[i]]
    IN  IF cycle THEN {Returned([word EXCEPT !.bytes = r_copy])}
        ELSE IF amount <= 5 THEN {Returned([word EXCEPT !.bytes = zeroed])}
        ELSE {Panicked("ArithmeticOverflow"),
              Returned([word EXCEPT !.bytes = r_copy])}

\* r_copy.bytes[(amount + i) % 5] = word.bytes[i]: position j receives the
\* byte i with (amount + i) % 5 = j
single_word_right_shift(word, amount, cycle) ==
    LET r_copy == [j \in 0..4 |->
                      word.bytes[CHOOSE i \in 0..4 : (amount + i) % 5 = j]]
        zeroed == [j \in 0..4 |-> IF j < Min(amount, 5) THEN 0 ELSE r_copy[j]]
    IN  IF cycle THEN {Returned([word EXCEPT !.bytes = r_copy])}
        ELSE {Returned([word EXCEPT !.bytes = zeroed])}

(***************************************************************************)
(* instruction_functions.rs: double_word_left_shift,                       *)
(* double_word_right_shift.  An outcome is the pair of words returned, or  *)
(* the panic that ended the call.                                          *)
(***************************************************************************)
ReturnedPair(vals_shifted, word1, word2) ==
    [word1 |-> [word1 EXCEPT !.bytes = [i \in 0..4 |-> vals_shifted[i]]],
     word2 |-> [word2 EXCEPT !.bytes = [i \in 0..4 |-> vals_shifted[i + 5]]],
     fault |-> "none"]

PanickedPair(f) == [word1 |-> Word_default, word2 |-> Word_default, fault |-> f]

\* the 10 bytes of consecutive data
DoubleVals(word1, word2) ==
    [i \in 0..9 |-> IF i < 5 THEN word1.bytes[i] ELSE word2.bytes[i - 5]]

\* `(10 - amount).max(0)..10` is computed on usize: for amount > 10 the
\* subtraction panics in a build with overflow checks and wraps in a build
\* without them, to a bound past 10 and hence an empty range
double_word_left_shift(word1, word2, amount) ==
    LET vals == DoubleVals(word1, word2)
        vals_shifted ==
            [i \in 0..9 |->
                IF amount < 10 /\ i < 10 - amount
                THEN vals[(amount + i) % 10] ELSE 0]
    IN  IF amount <= 10 THEN {ReturnedPair(vals_shifted, word1, word2)}
        ELSE {PanickedPair("ArithmeticOverflow"),
              ReturnedPair(vals_shifted, word1, word2)}

double_word_right_shift(word1, word2, amount) ==
    LET vals == DoubleVals(word1, word2)
        vals_shifted ==
            [j \in 0..9 |->
                IF amount < 10 /\ j >= amount THEN vals[j - amount] ELSE 0]
    IN  {ReturnedPair(vals_shifted, word1, word2)}

\* the byte loop left..=right panics when it reaches index 5 without having
\* returned
compare_words_panics(word1, word2, fs) ==
    LET a == adjusted_field_specification(fs)
    IN  /\ ~a.only_zero
        /\ ~(a.zero_included /\ word1.positive # word2.positive)
        /\ a.l <= a.r
        /\ a.r > 4
        /\ \A i \in a.l..4 : word1.bytes[i] = word2.bytes[i]

\* faulty variant: the last byte of the window where the words differ
\* decides
compare_words_last_byte(word1, word2, fs) ==
    LET a    == adjusted_field_specification(fs)
        diff == {i \in a.l..Min(a.r, 4) : word1.bytes[i] # word2.bytes[i]}
        d    == CHOOSE i \in diff : \A j \in diff : i >= j
    IN  IF a.only_zero THEN "equal"
        ELSE IF a.zero_included /\ word1.positive # word2.positive
        THEN IF word1.positive THEN "greater" ELSE "less"
        ELSE IF diff = {} THEN "equal"
        ELSE IF word1.bytes[d] > word2.bytes[d] THEN "greater"
        ELSE "less"

compare_words(word1, word2, fs) ==
    LET a    == adjusted_field_specification(fs)
        diff == {i \in a.l..Min(a.r, 4) : word1.bytes[i] # word2.bytes[i]}
        \* the first byte of the window where the words differ
        d    == CHOOSE i \in diff : \A j \in diff : i <= j
    IN  IF a.only_zero THEN "equal"
        ELSE IF a.zero_included /\ word1.positive # word2.positive
        THEN IF word1.positive THEN "greater" ELSE "less"
        ELSE IF diff = {} THEN "equal"
        ELSE IF word1.bytes[d] > word2.bytes[d] THEN "greater"
        ELSE "less"

(***************************************************************************)
(* computer.rs: Computer                                                   *)
(* memory holds the cells that differ from Word::default(); peripherals is *)
(* never read or written by the core and is left out.                      *)
(***************************************************************************)
Computer_new(mem, start) ==
    [ra |-> Word_default, rx |-> Word_default,
     ri1 |-> Word_default, ri2 |-> Word_default, ri3 |-> Word_default,
     ri4 |-> Word_default, ri5 |-> Word_default, ri6 |-> Word_default,
     rj |-> Word_default,
     overflow_flag |-> FALSE,
     comparison_flag |-> "equal",
     memory |-> mem,
     pc |-> start]

\* computer.memory[a], for a < MemorySize
memory_at(c, a) == IF a \in DOMAIN c.memory THEN c.memory[a] ELSE Word_default

\* computer.memory[a] = w
memory_set(c, a, w) ==
    [c EXCEPT !.memory =
        IF w = Word_default
        THEN [x \in (DOMAIN c.memory) \ {a} |-> c.memory[x]]
        ELSE [x \in (DOMAIN c.memory) \cup {a} |->
                 IF x = a THEN w ELSE c.memory[x]]]

\* indexing memory panics past the last cell
memory_index_panics(a) == a >= MemorySize

fetch(c) == memory_at(c, c.pc)

\* instruction.rs: register_for_index panics outside 1..6
register_for_index_panics(index) == index \notin 1..6

register_for_index(c, index) ==
    CASE index = 1 -> c.ri1
      [] index = 2 -> c.ri2
      [] index = 3 -> c.ri3
      [] index = 4 -> c.ri4
      [] index = 5 -> c.ri5
      [] index = 6 -> c.ri6

\* writing through the &mut Word that register_for_index returns
set_register_for_index(c, index, w) ==
    CASE index = 1 -> [c EXCEPT !.ri1 = w]
      [] index = 2 -> [c EXCEPT !.ri2 = w]
      [] index = 3 -> [c EXCEPT !.ri3 = w]
      [] index = 4 -> [c EXCEPT !.ri4 = w]
      [] index = 5 -> [c EXCEPT !.ri5 = w]
      [] index = 6 -> [c EXCEPT !.ri6 = w]

decode_index_panics(index) == index # 0 /\ register_for_index_panics(index)

decode_index(c, index) ==
    IF index = 0 THEN 0
    ELSE NumToInt(Word_field_value(register_for_index(c, index), <<3, 4>>))

decode_field(field) == <<field \div 8, field % 8>>

(***************************************************************************)
(* computer.rs: Computer::decode.  A decoded instruction is a record with  *)
(* its struct's name in `kind` and the struct's fields.                    *)
(***************************************************************************)
NoOperation_new == [kind |-> "NoOperation"]

decode(c, instruction) ==
    LET address == Word_address(instruction)
        index == Word_index(instruction)
        field == Word_field(instruction)
        opcode == Word_opcode(instruction)
        offset_address == address + decode_index(c, index)
        field_specification == decode_field(field)
        positive == instruction.positive
        Mem(k) == [kind |-> k, address |-> offset_address,
                   field_specification |-> field_specification]
        MemI(k, i) == [kind |-> k, index |-> i, address |-> offset_address,
                       field_specification |-> field_specification]
        Load(k, n) == [kind |-> k, address |-> offset_address,
                       field_specification |-> field_specification,
                       negative |-> n]
        LoadIx(i, n) == [kind |-> "LoadI", index |-> i,
                         address |-> offset_address,
                         field_specification |-> field_specification,
                         negative |-> n]
        Imm(k, n) == [kind |-> k, value |-> offset_address,
                      entry_is_positive |-> positive, should_negate |-> n]
        ImmI(k, i, n) == [kind |-> k, index |-> i, value |-> offset_address,
                          entry_is_positive |-> positive, should_negate |-> n]
    IN  CASE opcode = 1 -> Mem("Add")
          [] opcode = 2 -> Mem("Sub")
          [] opcode = 3 -> Mem("Mult")
          [] opcode = 4 -> Mem("Div")
          [] opcode = 5 ->
                IF field = 2 THEN [kind |-> "Halt"] ELSE NoOperation_new
          [] opcode = 8 -> Load("LoadA", FALSE)
          [] opcode \in 9..14 -> LoadIx(opcode - 8, FALSE)
          [] opcode = 15 -> Load("LoadX", FALSE)
          [] opcode = 16 -> Load("LoadA", TRUE)
          [] opcode \in 17..22 -> LoadIx(opcode - 16, TRUE)
          [] opcode = 23 -> Load("LoadX", TRUE)
          [] opcode = 24 -> Mem("StoreA")
          [] opcode \in 25..30 -> MemI("StoreI", opcode - 24)
          [] opcode = 31 -> Mem("StoreX")
          [] opcode = 32 -> Mem("StoreJ")
          [] opcode = 33 -> Mem("StoreZ")
          [] opcode = 39 ->
                CASE field = 0 ->
                        [kind |-> "Jmp", address |-> address, save_address |-> TRUE]
                  [] field = 1 ->
                        [kind |-> "Jmp", address |-> address, save_address |-> FALSE]
                  [] field = 2 ->
                        [kind |-> "JmpO", address |-> address, should_negate |-> FALSE]
                  [] field = 3 ->
                        [kind |-> "JmpO", address |-> address, should_negate |-> TRUE]
                  [] field \in 4..9 ->
                        [kind |-> "JmpC", address |-> address, operation |-> field]
                  [] OTHER -> NoOperation_new
          [] opcode = 48 ->
                CASE field = 0 -> Imm("IncA", FALSE)
                  [] field = 1 -> Imm("IncA", TRUE)
                  [] field = 2 -> Imm("EntA", FALSE)
                  [] field = 3 -> Imm("EntA", TRUE)
                  [] OTHER -> NoOperation_new
          [] opcode \in 49..54 ->
                CASE field = 0 -> ImmI("IncI", opcode - 48, FALSE)
                  [] field = 1 -> ImmI("IncI", opcode - 48, TRUE)
                  [] field = 2 -> ImmI("EntI", opcode - 48, FALSE)
                  [] field = 3 -> ImmI("EntI", opcode - 48, TRUE)
                  [] OTHER -> NoOperation_new
          [] opcode = 55 ->
                CASE field = 0 -> Imm("IncX", FALSE)
                  [] field = 1 -> Imm("IncX", TRUE)
                  [] field = 2 -> Imm("EntX", FALSE)
                  [] field = 3 -> Imm("EntX", TRUE)
                  [] OTHER -> NoOperation_new
          [] opcode = 56 -> Mem("CmpA")
          [] opcode \in 57..62 -> MemI("CmpI", opcode - 56)
          [] opcode = 63 -> Mem("CmpX")
          [] OTHER -> NoOperation_new

\* the struct decode chooses, which depends on the opcode and field bytes
\* only: decode, tabulated
decode_kind ==
    Computed([opcode \in 0..255 |->
        Computed([field \in 0..255 |->
            decode(Computer_new(<<>>, 0),
                   Word_new(TRUE, <<0, 0, 0, field, opcode>>)).kind])])

(***************************************************************************)
(* instruction.rs: the instructions.  X_execute_on(self, computer) is the  *)
(* outcome of X::execute_on: the computer it leaves and "none" or the      *)
(* panic that ended it.                                                    *)
(***************************************************************************)
Done(c) == [c |-> c, fault |-> "none"]

Panic(c, f) == [c |-> c, fault |-> f]

save_jump(c) ==
    LET old_address == Word_from_value(c.pc + 1)
    IN  [c EXCEPT !.rj = copy_word_fields(old_address, c.rj, <<0, 5>>)]

\* Faulty variants of execute_on, against which the properties are tried:
\* a no-operation that resets the overflow toggle, a halt that stops one
\* cell short of the sentinel.
NoOperation_clears_overflow(self, c) == Done([c EXCEPT !.overflow_flag = FALSE])

Halt_stops_short(self, c) == Done([c EXCEPT !.pc = 3999])

NoOperation_execute_on(self, c) == Done(c)

Halt_execute_on(self, c) == Done([c EXCEPT !.pc = 4000])

LoadA_execute_on(self, c) ==
    IF memory_index_panics(self.address) THEN Panic(c, "IndexOutOfBounds")
    ELSE
      LET mem == memory_at(c, self.address)
          ra  == copy_word_fields(mem, c.ra, self.field_specification)
      IN  IF copy_word_fields_panics(self.field_specification)
          THEN Panic([c EXCEPT !.ra = ra], "IndexOutOfBounds")
          ELSE Done([c EXCEPT !.ra =
                        IF self.negative THEN Word_negate(ra) ELSE ra])

LoadX_execute_on(self, c) ==
    IF memory_index_panics(self.address) THEN Panic(c, "IndexOutOfBounds")
    ELSE
      LET mem == memory_at(c, self.address)
          rx  == copy_word_fields(mem, c.rx, self.field_specification)
      IN  IF copy_word_fields_panics(self.field_specification)
          THEN Panic([c EXCEPT !.rx = rx], "IndexOutOfBounds")
          ELSE Done([c EXCEPT !.rx =
                        IF self.negative THEN Word_negate(rx) ELSE rx])

LoadI_execute_on(self, c) ==
    IF memory_index_panics(self.address) THEN Panic(c, "IndexOutOfBounds")
    ELSE IF copy_word_fields_i_panics(self.field_specification)
    THEN Panic(c, "InvalidFieldSpec")
    ELSE
      LET mem == memory_at(c, self.address)
          ri  == copy_word_fields_i(mem, register_for_index(c, self.index),
                                    self.field_specification)
      IN  Done(set_register_for_index(c, self.index,
                   IF self.negative THEN Word_negate(ri) ELSE ri))

\* the body shared by StoreA, StoreX, StoreI, StoreJ and StoreZ:
\* store_operation(&from_word, &mut computer.memory[self.address], field)
Store_execute_on(self, c, from_word) ==
    IF memory_index_panics(self.address) THEN Panic(c, "IndexOutOfBounds")
    ELSE
      LET to_word == store_operation(from_word, memory_at(c, self.address),
                                     self.field_specification)
          stored  == memory_set(c, self.address, to_word)
      IN  IF store_operation_panics(self.field_specification)
          THEN Panic(stored, "IndexOutOfBounds")
          ELSE Done(stored)

StoreA_execute_on(self, c) == Store_execute_on(self, c, c.ra)

StoreX_execute_on(self, c) == Store_execute_on(self, c, c.rx)

StoreI_execute_on(self, c) ==
    Store_execute_on(self, c, register_for_index(c, self.index))

StoreJ_execute_on(self, c) == Store_execute_on(self, c, c.rj)

StoreZ_execute_on(self, c) == Store_execute_on(self, c, Word_default)

\* the body shared by Add and Sub: add_words, copy_word_fields, overflow
AddOperand_execute_on(self, c, operand) ==
    LET fault == add_words_fault(self.field_specification)
        res   == add_words(c.ra, operand, self.field_specification)
    IN  IF fault # "none" THEN Panic(c, fault)
        ELSE Done([c EXCEPT
                     !.ra = copy_word_fields(res.word, c.ra,
                                             self.field_specification),
                     !.overflow_flag = res.overflow])

Add_execute_on(self, c) ==
    IF memory_index_panics(self.address) THEN Panic(c, "IndexOutOfBounds")
    ELSE AddOperand_execute_on(self, c, memory_at(c, self.address))

Sub_execute_on(self, c) ==
    IF memory_index_panics(self.address) THEN Panic(c, "IndexOutOfBounds")
    ELSE AddOperand_execute_on(self, c,
                               Word_negate(memory_at(c, self.address)))

\* Mult binds the pair multiply_words returns, (word_upper, word_lower), to
\* (lower_value, upper_value): rx receives word_upper and ra word_lower
Mult_execute_on(self, c) ==
    IF memory_index_panics(self.address) THEN Panic(c, "IndexOutOfBounds")
    ELSE
      LET operand == Word_negate(memory_at(c, self.address))
          fault   == multiply_words_fault(self.field_specification)
          res     == multiply_words(c.ra, operand, self.field_specification)
          lower_value == res.upper
          upper_value == res.lower
      IN  IF fault # "none" THEN Panic(c, fault)
          ELSE Done([c EXCEPT
                       !.rx = copy_word_fields(lower_value, c.rx, <<0, 5>>),
                       !.ra = copy_word_fields(upper_value, c.ra, <<0, 5>>)])

\* faulty variant: the overflow toggle is left as it was
Div_keeps_overflow(self, c) ==
    IF memory_index_panics(self.address) THEN Panic(c, "IndexOutOfBounds")
    ELSE
      LET operand == Word_negate(memory_at(c, self.address))
          fault   == divide_words_fault(operand, self.field_specification)
          res     == divide_words(c.ra, c.rx, operand, self.field_specification)
      IN  IF fault # "none" THEN Panic(c, fault)
          ELSE Done([c EXCEPT
                       !.rx = copy_word_fields(res.rem, c.rx, <<0, 5>>),
                       !.ra = copy_word_fields(res.div, c.ra, <<0, 5>>)])

Div_execute_on(self, c) ==
    IF memory_index_panics(self.address) THEN Panic(c, "IndexOutOfBounds")
    ELSE
      LET operand == Word_negate(memory_at(c, self.address))
          fault   == divide_words_fault(operand, self.field_specification)
          Assigned(res) ==
              Done([c EXCEPT
                      !.rx = copy_word_fields(res.rem, c.rx, <<0, 5>>),
                      !.ra = copy_word_fields(res.div, c.ra, <<0, 5>>),
                      !.overflow_flag = res.divide_by_zero])
      IN  IF fault # "none" THEN Panic(c, fault)
          ELSE CHOOSE e \in
                   { Assigned(res) :
                       res \in {divide_words(c.ra, c.rx, operand,
                                             self.field_specification)} } : TRUE

\* faulty variant: the sign Word::from_value gave the word is kept
immediate_word_sign_of_value(self) == Word_from_value(self.value)

\* the word EntA, EntX, EntI, IncA, IncX and IncI build from their operands
immediate_word(self) ==
    [Word_from_value(self.value) EXCEPT
        !.positive = IF self.should_negate THEN ~self.entry_is_positive
                     ELSE self.entry_is_positive]

EntA_execute_on(self, c) ==
    Done([c EXCEPT !.ra = copy_word_fields(immediate_word(self), c.ra, <<0, 5>>)])

EntX_execute_on(self, c) ==
    Done([c EXCEPT !.rx = copy_word_fields(immediate_word(self), c.rx, <<0, 5>>)])

EntI_execute_on(self, c) ==
    Done(set_register_for_index(c, self.index,
             copy_word_fields_i(immediate_word(self),
                                register_for_index(c, self.index), <<0, 5>>)))

\* faulty variant: the overflow flag is left as it was
IncA_keeps_overflow_flag(self, c) ==
    LET res == add_words(c.ra, immediate_word(self), <<0, 5>>)
    IN  Done([c EXCEPT !.ra = copy_word_fields(res.word, c.ra, <<0, 5>>)])

IncA_execute_on(self, c) ==
    LET res == add_words(c.ra, immediate_word(self), <<0, 5>>)
    IN  Done([c EXCEPT !.ra = copy_word_fields(res.word, c.ra, <<0, 5>>),
                       !.overflow_flag = res.overflow])

IncX_execute_on(self, c) ==
    LET res == add_words(c.rx, immediate_word(self), <<0, 5>>)
    IN  Done([c EXCEPT !.rx = copy_word_fields(res.word, c.rx, <<0, 5>>),
                       !.overflow_flag = res.overflow])

IncI_execute_on(self, c) ==
    LET ri  == register_for_index(c, self.index)
        res == add_words(ri, immediate_word(self), <<0, 5>>)
    IN  Done([set_register_for_index(c, self.index,
                  copy_word_fields(res.word, ri, <<0, 5>>))
              EXCEPT !.overflow_flag = res.overflow])

\* the body shared by CmpA, CmpX and CmpI
Cmp_execute_on(self, c, register) ==
    IF memory_index_panics(self.address) THEN Panic(c, "IndexOutOfBounds")
    ELSE
      LET mem == memory_at(c, self.address)
      IN  IF compare_words_panics(register, mem, self.field_specification)
          THEN Panic(c, "IndexOutOfBounds")
          ELSE Done([c EXCEPT !.comparison_flag =
                        compare_words(register, mem, self.field_specification)])

CmpA_execute_on(self, c) == Cmp_execute_on(self, c, c.ra)

CmpX_execute_on(self, c) == Cmp_execute_on(self, c, c.rx)

CmpI_execute_on(self, c) ==
    Cmp_execute_on(self, c, register_for_index(c, self.index))

\* faulty variant: the jump-save register is written by every Jmp
Jmp_always_saves(self, c) == Done([save_jump(c) EXCEPT !.pc = self.address])

Jmp_execute_on(self, c) ==
    LET saved == IF self.save_address THEN save_jump(c) ELSE c
    IN  Done([saved EXCEPT !.pc = self.address])

\* faulty variant: the overflow toggle is cleared only by a taken jump
JmpO_clears_when_taken(self, c) ==
    IF c.overflow_flag # self.should_negate
    THEN Done([save_jump(c) EXCEPT !.pc = self.address, !.overflow_flag = FALSE])
    ELSE Done(c)

JmpO_execute_on(self, c) ==
    LET jumped == IF c.overflow_flag # self.should_negate
                  THEN [save_jump(c) EXCEPT !.pc = self.address]
                  ELSE c
    IN  Done([jumped EXCEPT !.overflow_flag = FALSE])

JmpC_condition(operation, comparison_flag) ==
    CASE operation = 4 -> comparison_flag = "less"
      [] operation = 5 -> comparison_flag = "equal"
      [] operation = 6 -> comparison_flag = "greater"
      [] operation = 7 -> comparison_flag # "greater"
      [] operation = 8 -> comparison_flag # "equal"
      [] operation = 9 -> comparison_flag # "less"
      [] OTHER -> FALSE

JmpC_execute_on(self, c) ==
    IF JmpC_condition(self.operation, c.comparison_flag)
    THEN Done([save_jump(c) EXCEPT !.pc = self.address])
    ELSE Done(c)

\* JmpA has an empty body, and decode never builds one
JmpA_execute_on(self, c) == Done(c)

(***************************************************************************)
(* The state: the Computer that run() works on, and where run() is.        *)
(*   status   "running", "halted" (run returned) or "panicked"             *)
(*   fault    the panic, once panicked                                     *)
(*   before   the computer as the last iteration of the run loop found it  *)
(*   decoded  the instruction the last iteration decoded ("none" when the  *)
(*            iteration panicked before it had one)                        *)
(*   call     a call of one of the functions of the instruction modules    *)
(*            outside a run: its arguments and, once made, its outcome     *)
(***************************************************************************)
VARIABLES computer, status, fault, before, decoded, call

vars == <<computer, status, fault, before, decoded, call>>

(***************************************************************************)
(* The memory images run() is started on: three data words at ADDRESS, and *)
(* a program of Setups set-up instructions followed by one instruction,    *)
(* placed so that TailCells default cells follow it.                       *)
(***************************************************************************)
\* the instruction word with the given sign, address, index, field, opcode
instruction_word(positive, address, index, field, opcode) ==
    Word_new(positive, <<address \div 256, address % 256, index, field, opcode>>)

\* tests.rs: sample_mem(), sample_reg()
sample_mem == Word_new(FALSE, <<1, 2, 3, 4, 5>>)

sample_reg == Word_new(TRUE, <<0, 0, 0, 9, 1>>)

largest_word == Word_new(TRUE, <<255, 255, 255, 255, 255>>)

TestAt == MemorySize - TailCells - 1

Start == TestAt - Setups

\* the field specifications (L:R) with 0 <= L <= R <= 5, as field bytes
FieldBytes == UNION { {8 * l + r : r \in l..5} : l \in 0..5 }

SetupPool ==
    { Word_default,
      instruction_word(TRUE, ADDRESS, 0, 5, 8),        \* LDA ADDRESS
      instruction_word(TRUE, ADDRESS, 0, 5, 15),       \* LDX ADDRESS
      instruction_word(TRUE, 258, 0, 2, 49),           \* ENT1 258
      instruction_word(TRUE, ADDRESS, 0, 5, 56),       \* CMPA ADDRESS
      instruction_word(TRUE, ADDRESS + 2, 0, 5, 1) }   \* ADD ADDRESS+2

\* none of them is the address of the jump itself
JumpTargets == {MemorySize - 1, MemorySize, MemorySize + 100}

TestPool ==
    \* HLT, and (opcode, field) pairs decode has no instruction for
    { instruction_word(TRUE, 0, 0, 2, 5) }
    \cup { instruction_word(TRUE, ADDRESS, 0, f, op) :
             f \in {0, 5}, op \in {0, 5, 6, 7, 34, 38, 64, 255} }
    \cup { instruction_word(FALSE, MemorySize + 100, 0, 1, 5) }
    \cup { instruction_word(TRUE, ADDRESS, 0, f, op) :
             f \in {10, 63}, op \in {39, 48, 49, 55} }
    \* the register jumps of MIX (opcodes 40..47)
    \cup { instruction_word(TRUE, MemorySize, 0, f, op) :
             f \in 0..5, op \in {40, 41, 47} }
    \* loads
    \cup { instruction_word(TRUE, ADDRESS, 0, f, 8) : f \in FieldBytes }
    \cup { instruction_word(TRUE, ADDRESS + 1, 0, f, 15) : f \in FieldBytes }
    \cup { instruction_word(TRUE, ADDRESS, 0, f, 9) : f \in FieldBytes }
    \cup { instruction_word(TRUE, ADDRESS, 0, f, op) :
             f \in {5, 13}, op \in {16, 23, 17} }
    \cup { instruction_word(TRUE, ADDRESS + 1, 0, f, 14) :
             f \in {3, 9, 10, 12, 19, 27} }
    \* loads whose field is not a field of the word: (3:1) and (0:6)
    \cup { instruction_word(TRUE, ADDRESS, 0, f, op) :
             f \in {25, 6}, op \in {8, 15} }
    \cup { instruction_word(TRUE, a, 1, 5, op) :
             a \in {ADDRESS - 258, ADDRESS - 1}, op \in {8, 15} }
    \cup { instruction_word(TRUE, a, 0, 5, 8) :
             a \in {MemorySize - 1, MemorySize, MemorySize + 100} }
    \* stores
    \cup { instruction_word(TRUE, ADDRESS + 1, 0, f, op) :
             f \in FieldBytes, op \in {24, 31} }
    \cup { instruction_word(TRUE, ADDRESS, 0, f, op) :
             f \in FieldBytes, op \in {25, 32} }
    \cup { instruction_word(TRUE, ADDRESS, 0, f, 33) : f \in {0, 5, 9, 19, 45} }
    \* stores whose field is not a field of the word: (3:1) and (0:6)
    \cup { instruction_word(TRUE, ADDRESS, 0, f, 24) : f \in {25, 6} }
    \* arithmetic
    \cup { instruction_word(TRUE, a, 0, f, 1) :
             a \in {ADDRESS, ADDRESS + 1, ADDRESS + 2}, f \in FieldBytes }
    \cup { instruction_word(TRUE, ADDRESS + 1, 0, 0, 2) }
    \cup { instruction_word(TRUE, ADDRESS + 1, 0, f, 2) : f \in {5, 13, 45} }
    \cup { instruction_word(TRUE, a, 0, f, op) :
             a \in {ADDRESS, ADDRESS + 1, ADDRESS + 2},
             f \in {0, 2, 5, 13, 19, 37, 45}, op \in {3, 4} }
    \* a sign-only field with L = 1, and fields that are no field of the word
    \cup { instruction_word(TRUE, ADDRESS, 0, f, op) :
             f \in {8, 6, 25}, op \in {1, 2, 3, 4} }
    \* address transfer
    \cup { instruction_word(s, v, 0, f, op) :
             s \in BOOLEAN, v \in {0, 1, 1000}, f \in 0..3, op \in {48, 49, 55} }
    \cup { instruction_word(TRUE, 5, 1, 2, 48) }
    \* INC1 by the largest two-byte address
    \cup { instruction_word(TRUE, 65535, 0, 0, 49) }
    \* comparisons
    \cup { instruction_word(TRUE, a, 0, f, 56) :
             a \in {ADDRESS, ADDRESS + 1}, f \in FieldBytes }
    \cup { instruction_word(TRUE, ADDRESS + 1, 0, f, op) :
             f \in {0, 5, 13, 19, 37}, op \in {57, 63} }
    \cup { instruction_word(TRUE, ADDRESS, 0, f, 56) : f \in {6, 25} }
    \* jumps
    \cup { instruction_word(TRUE, a, 0, f, 39) : a \in JumpTargets, f \in 0..9 }
    \cup { instruction_word(TRUE, MemorySize - 1, 1, f, 39) : f \in 0..9 }
    \* an index byte outside 0..6
    \cup { instruction_word(TRUE, ADDRESS, 7, 5, op) : op \in {0, 8} }
    \cup { instruction_word(TRUE, ADDRESS, 255, 5, op) : op \in {8, 24, 63} }
    \cup { instruction_word(TRUE, ADDRESS, 7, 2, op) : op \in {5, 49} }
    \cup { instruction_word(TRUE, MemorySize - 1, 7, 0, 39) }

\* the memory image: the cells that differ from Word::default()
Image(setup, test) ==
    LET cells == [a \in {ADDRESS, ADDRESS + 1, ADDRESS + 2}
                        \cup (Start..TestAt) |->
                    IF a = ADDRESS THEN sample_mem
                    ELSE IF a = ADDRESS + 1 THEN sample_reg
                    ELSE IF a = ADDRESS + 2 THEN largest_word
                    ELSE IF a = TestAt THEN test
                    ELSE setup[a - Start + 1]]
    IN  [a \in {x \in DOMAIN cells : cells[x] # Word_default} |-> cells[a]]

Init ==
    \E setup \in [1..Setups -> SetupPool], test \in TestPool :
        /\ computer = Computer_new(Image(setup, test), Start)
        /\ status = "running"
        /\ fault = "none"
        /\ before = computer
        /\ decoded = [kind |-> "none"]
        /\ call = [fn |-> "none"]

(***************************************************************************)
(* computer.rs: Computer::run.  One action is one iteration of the loop:   *)
(* fetch, decode, execute_on, the test pc == 4000, and pc = pc + 1.        *)
(***************************************************************************)
\* what the loop does with the outcome of execute_on
run_continue(e) ==
    /\ fault' = e.fault
    /\ IF e.fault # "none"
       THEN computer' = e.c /\ status' = "panicked"
       ELSE IF e.c.pc = 4000
       THEN computer' = e.c /\ status' = "halted"
       ELSE computer' = [e.c EXCEPT !.pc = e.c.pc + 1] /\ status' = "running"

\* let decoded_instruction = self.decode(&self.fetch())
decoded_instruction == decode(computer, fetch(computer))

\* the iteration fetches and decodes a `kind` without panicking
decodes(kind) ==
    /\ status = "running"
    /\ ~memory_index_panics(computer.pc)
    /\ decode_kind[Word_opcode(fetch(computer))][Word_field(fetch(computer))] = kind
    /\ ~decode_index_panics(Word_index(fetch(computer)))

\* the rest of the iteration, given the outcome e of
\* decoded_instruction.execute_on(self): the halt test and the increment
run_iteration(e) ==
    /\ before' = computer
    /\ decoded' = decoded_instruction
    /\ run_continue(e)
    /\ UNCHANGED call

\* self.memory[self.pc] with pc past the last cell
FetchPanics ==
    /\ status = "running"
    /\ memory_index_panics(computer.pc)
    /\ before' = computer
    /\ decoded' = [kind |-> "none"]
    /\ status' = "panicked"
    /\ fault' = "IndexOutOfBounds"
    /\ UNCHANGED <<computer, call>>

\* a decode that lets the program counter move past the rejected word
DecodePanics_skips_word ==
    /\ status = "running"
    /\ ~memory_index_panics(computer.pc)
    /\ decode_index_panics(Word_index(fetch(computer)))
    /\ before' = computer
    /\ decoded' = [kind |-> "none"]
    /\ status' = "panicked"
    /\ fault' = "InvalidIndex"
    /\ computer' = [computer EXCEPT !.pc = computer.pc + 1]
    /\ UNCHANGED call

\* register_for_index panics in decode_index
DecodePanics ==
    /\ status = "running"
    /\ ~memory_index_panics(computer.pc)
    /\ decode_index_panics(Word_index(fetch(computer)))
    /\ before' = computer
    /\ decoded' = [kind |-> "none"]
    /\ status' = "panicked"
    /\ fault' = "InvalidIndex"
    /\ UNCHANGED <<computer, call>>

NoOperation ==
    /\ decodes("NoOperation")
    /\ run_iteration(NoOperation_execute_on(decoded_instruction, computer))

Halt ==
    /\ decodes("Halt")
    /\ run_iteration(Halt_execute_on(decoded_instruction, computer))

LoadA ==
    /\ decodes("LoadA")
    /\ run_iteration(LoadA_execute_on(decoded_instruction, computer))

LoadX ==
    /\ decodes("LoadX")
    /\ run_iteration(LoadX_execute_on(decoded_instruction, computer))

LoadI ==
    /\ decodes("LoadI")
    /\ run_iteration(LoadI_execute_on(decoded_instruction, computer))

StoreA ==
    /\ decodes("StoreA")
    /\ run_iteration(StoreA_execute_on(decoded_instruction, computer))

StoreX ==
    /\ decodes("StoreX")
    /\ run_iteration(StoreX_execute_on(decoded_instruction, computer))

StoreI ==
    /\ decodes("StoreI")
    /\ run_iteration(StoreI_execute_on(decoded_instruction, computer))

StoreJ ==
    /\ decodes("StoreJ")
    /\ run_iteration(StoreJ_execute_on(decoded_instruction, computer))

StoreZ ==
    /\ decodes("StoreZ")
    /\ run_iteration(StoreZ_execute_on(decoded_instruction, computer))

Add ==
    /\ decodes("Add")
    /\ run_iteration(Add_execute_on(decoded_instruction, computer))

Sub ==
    /\ decodes("Sub")
    /\ run_iteration(Sub_execute_on(decoded_instruction, computer))

Mult ==
    /\ decodes("Mult")
    /\ run_iteration(Mult_execute_on(decoded_instruction, computer))

Div ==
    /\ decodes("Div")
    /\ run_iteration(Div_execute_on(decoded_instruction, computer))

EntA ==
    /\ decodes("EntA")
    /\ run_iteration(EntA_execute_on(decoded_instruction, computer))

EntX ==
    /\ decodes("EntX")
    /\ run_iteration(EntX_execute_on(decoded_instruction, computer))

EntI ==
    /\ decodes("EntI")
    /\ run_iteration(EntI_execute_on(decoded_instruction, computer))

IncA ==
    /\ decodes("IncA")
    /\ run_iteration(IncA_execute_on(decoded_instruction, computer))

IncX ==
    /\ decodes("IncX")
    /\ run_iteration(IncX_execute_on(decoded_instruction, computer))

IncI ==
    /\ decodes("IncI")
    /\ run_iteration(IncI_execute_on(decoded_instruction, computer))

CmpA ==
    /\ decodes("CmpA")
    /\ run_iteration(CmpA_execute_on(decoded_instruction, computer))

CmpX ==
    /\ decodes("CmpX")
    /\ run_iteration(CmpX_execute_on(decoded_instruction, computer))

CmpI ==
    /\ decodes("CmpI")
    /\ run_iteration(CmpI_execute_on(decoded_instruction, computer))

Jmp ==
    /\ decodes("Jmp")
    /\ run_iteration(Jmp_execute_on(decoded_instruction, computer))

JmpO ==
    /\ decodes("JmpO")
    /\ run_iteration(JmpO_execute_on(decoded_instruction, computer))

JmpC ==
    /\ decodes("JmpC")
    /\ run_iteration(JmpC_execute_on(decoded_instruction, computer))


Next ==
    \/ FetchPanics
    \/ DecodePanics
    \/ NoOperation
    \/ Halt
    \/ LoadA
    \/ LoadX
    \/ LoadI
    \/ StoreA
    \/ StoreX
    \/ StoreI
    \/ StoreJ
    \/ StoreZ
    \/ Add
    \/ Sub
    \/ Mult
    \/ Div
    \/ EntA
    \/ EntX
    \/ EntI
    \/ IncA
    \/ IncX
    \/ IncI
    \/ CmpA
    \/ CmpX
    \/ CmpI
    \/ Jmp
    \/ JmpO
    \/ JmpC

Spec == Init /\ [][Next]_vars

(***************************************************************************)
(* The functions of instruction.rs and instruction_functions.rs called on  *)
(* their own, as the unit tests call them: the arguments are drawn at the  *)
(* start and one action per function makes the call.                       *)
(***************************************************************************)
CallWords ==
    { Word_default, Word_negate(Word_default), sample_mem, sample_reg,
      largest_word,
      Word_new(TRUE, <<1, 1, 1, 1, 1>>),
      Word_new(FALSE, <<0, 0, 0, 0, 17>>),
      Word_new(TRUE, <<0, 0, 0, 0, 3>>),
      Word_new(FALSE, <<255, 254, 3, 4, 5>>) }

CallFields == { <<l, r>> : l \in 0..5, r \in 0..5 }

\* the fields of the calls of divide_words
DivideFields == { <<0, 5>>, <<1, 5>>, <<0, 2>>, <<4, 5>> }

Calls ==
    { [fn |-> "multiply_words", word1 |-> w1, word2 |-> w2,
       field_specification |-> fs, done |-> FALSE] :
         w1 \in CallWords, w2 \in CallWords, fs \in CallFields }
    \cup
    { [fn |-> "divide_words", word1 |-> w1, word2 |-> w2, word3 |-> w3,
       field_specification |-> fs, done |-> FALSE] :
         w1 \in CallWords, w2 \in CallWords, w3 \in CallWords,
         fs \in DivideFields }
    \cup
    { [fn |-> "compare_words", word1 |-> w1, word2 |-> w2,
       field_specification |-> fs, done |-> FALSE] :
         w1 \in CallWords, w2 \in CallWords, fs \in {<<0, 5>>, <<1, 5>>} }
    \cup
    \* Add::execute_on followed by Sub::execute_on, on the same operand
    { [fn |-> "Add_Sub", ra |-> w1, mem |-> w2, field_specification |-> fs,
       step |-> 0, fault |-> "none", add_overflow |-> FALSE, done |-> FALSE] :
         w1 \in CallWords, w2 \in CallWords,
         fs \in { f \in CallFields : f[1] <= f[2] } }
    \cup
    { [fn |-> f, word |-> w, amount |-> a, cycle |-> c, done |-> FALSE] :
         f \in {"single_word_left_shift", "single_word_right_shift"},
         w \in CallWords, a \in 0..MaxShift, c \in BOOLEAN }
    \cup
    { [fn |-> f, word1 |-> w1, word2 |-> w2, amount |-> a, done |-> FALSE] :
         f \in {"double_word_left_shift", "double_word_right_shift"},
         w1 \in CallWords, w2 \in CallWords, a \in 0..MaxDoubleShift }

\* as the tests do: Computer::default(), with the accumulator and the
\* memory cell at ADDRESS set for the calls of execute_on
CallComputer(k) ==
    IF k.fn = "Add_Sub"
    THEN memory_set([Computer_new(<<>>, 0) EXCEPT !.ra = k.ra], ADDRESS, k.mem)
    ELSE Computer_new(<<>>, 0)

CallInit ==
    /\ call \in Calls
    /\ computer = CallComputer(call)
    /\ status = "idle"
    /\ fault = "none"
    /\ before = computer
    /\ decoded = [kind |-> "none"]

Called(outcome) ==
    /\ call' = [fn |-> call.fn, args |-> call, done |-> TRUE, outcome |-> outcome]
    /\ UNCHANGED <<computer, status, fault, before, decoded>>

MultiplyWords ==
    /\ call.fn = "multiply_words" /\ ~call.done
    /\ LET f == multiply_words_fault(call.field_specification)
       IN  Called(IF f # "none" THEN [fault |-> f]
                  ELSE [fault |-> "none",
                        value |-> multiply_words(call.word1, call.word2,
                                                 call.field_specification)])

CompareWords ==
    /\ call.fn = "compare_words" /\ ~call.done
    /\ Called(IF compare_words_panics(call.word1, call.word2,
                                      call.field_specification)
              THEN [fault |-> "IndexOutOfBounds"]
              ELSE [fault |-> "none",
                    value |-> compare_words(call.word1, call.word2,
                                            call.field_specification)])

DivideWords ==
    /\ call.fn = "divide_words" /\ ~call.done
    /\ LET f == divide_words_fault(call.word3, call.field_specification)
       IN  Called(IF f # "none" THEN [fault |-> f]
                  ELSE [fault |-> "none",
                        value |-> divide_words(call.word1, call.word2, call.word3,
                                               call.field_specification)])

SingleWordLeftShift ==
    /\ call.fn = "single_word_left_shift" /\ ~call.done
    /\ \E outcome \in single_word_left_shift(call.word, call.amount, call.cycle) :
          Called(outcome)

SingleWordRightShift ==
    /\ call.fn = "single_word_right_shift" /\ ~call.done
    /\ \E outcome \in single_word_right_shift(call.word, call.amount, call.cycle) :
          Called(outcome)

DoubleWordLeftShift ==
    /\ call.fn = "double_word_left_shift" /\ ~call.done
    /\ \E outcome \in double_word_left_shift(call.word1, call.word2, call.amount) :
          Called(outcome)

DoubleWordRightShift ==
    /\ call.fn = "double_word_right_shift" /\ ~call.done
    /\ \E outcome \in double_word_right_shift(call.word1, call.word2, call.amount) :
          Called(outcome)

\* Add::new(ADDRESS, field).execute_on(&mut computer)
ExecuteAdd ==
    /\ call.fn = "Add_Sub" /\ call.step = 0
    /\ LET self == [kind |-> "Add", address |-> ADDRESS,
                    field_specification |-> call.field_specification]
           e == Add_execute_on(self, computer)
       IN  /\ computer' = e.c
           /\ call' = [call EXCEPT !.step = 1, !.fault = e.fault,
                                   !.add_overflow = e.c.overflow_flag]
    /\ before' = computer
    /\ UNCHANGED <<status, fault, decoded>>

\* Sub::new(ADDRESS, field).execute_on(&mut computer), after the Add
ExecuteSub ==
    /\ call.fn = "Add_Sub" /\ call.step = 1 /\ call.fault = "none"
    /\ LET self == [kind |-> "Sub", address |-> ADDRESS,
                    field_specification |-> call.field_specification]
           e == Sub_execute_on(self, computer)
       IN  /\ computer' = e.c
           /\ call' = [call EXCEPT !.step = 2, !.fault = e.fault, !.done = TRUE]
    /\ UNCHANGED <<status, fault, before, decoded>>

CallNext ==
    \/ ExecuteAdd
    \/ ExecuteSub
    \/ MultiplyWords
    \/ DivideWords
    \/ CompareWords
    \/ SingleWordLeftShift
    \/ SingleWordRightShift
    \/ DoubleWordLeftShift
    \/ DoubleWordRightShift

CallSpec == CallInit /\ [][CallNext]_vars

(***************************************************************************)
(* Vocabulary of the properties.  They speak of the last iteration of the  *)
(* run loop: it found the computer as `before`, fetched fetched_word,      *)
(* decoded `decoded`, and left `computer`.                                 *)
(***************************************************************************)
\* the last iteration fetched and decoded an instruction
Decoded == decoded.kind # "none"

\* ... and execute_on returned
Executed == Decoded /\ fault = "none"

fetched_word == fetch(before)

\* the five bytes that encode n, most significant first (n < 2^32)
BigEndian(n) ==
    [i \in 0..4 |-> IF i = 0 THEN 0 ELSE (n \div (256 ^ (4 - i))) % 256]

\* the run loop went on from target t: it stopped if t is the sentinel and
\* stepped past t otherwise
WentTo(t) ==
    IF t = 4000 THEN status = "halted" /\ computer.pc = 4000
    ELSE status = "running" /\ computer.pc = t + 1

\* the run loop went on with the following instruction
FellThrough == status = "running" /\ computer.pc = before.pc + 1

\* the condition table 0=LESS 1=EQUAL 2=GREATER 3=GREATER-OR-EQUAL
\* 4=NOT-EQUAL 5=LESS-OR-EQUAL
ConditionTable(n, flag) ==
    CASE n = 0 -> flag = "less"
      [] n = 1 -> flag = "equal"
      [] n = 2 -> flag = "greater"
      [] n = 3 -> flag \in {"greater", "equal"}
      [] n = 4 -> flag # "equal"
      [] n = 5 -> flag \in {"less", "equal"}

\* the (opcode, field) pairs of decode's table
InDispatchTable(opcode, field) ==
    \/ opcode \in 1..4
    \/ opcode = 5 /\ field = 2
    \/ opcode \in 8..33
    \/ opcode = 39 /\ field \in 0..9
    \/ opcode \in 48..55 /\ field \in 0..3
    \/ opcode \in 56..63

\* the decoded instructions that carry an address or an immediate operand
JumpKinds == {"Jmp", "JmpO", "JmpC"}

OperandKinds ==
    {"Add", "Sub", "Mult", "Div", "LoadA", "LoadX", "LoadI", "StoreA",
     "StoreX", "StoreI", "StoreJ", "StoreZ", "CmpA", "CmpX", "CmpI"}

ImmediateKinds == {"EntA", "EntX", "EntI", "IncA", "IncX", "IncI"}

\* the address (or immediate) the decoded instruction is bound to
BoundAddress(inst) ==
    IF inst.kind \in ImmediateKinds THEN inst.value ELSE inst.address

(***************************************************************************)
(* C1.  When the run loop executes Halt, the program counter becomes 4000  *)
(* and the run stops in that same iteration: nothing else of the computer  *)
(* changes, and no further iteration is possible once the run has stopped. *)
(***************************************************************************)
C1_HaltStopsRun ==
    /\ decoded.kind = "Halt" =>
          /\ status = "halted"
          /\ computer = [before EXCEPT !.pc = 4000]
    /\ status = "halted" => computer.pc = 4000 /\ ~ENABLED Next

\* Halt was executed after the set-up instructions had changed a register
C1_Witness ==
    /\ decoded.kind = "Halt"
    /\ status = "halted"
    /\ before.pc = TestAt
    /\ before.ra # Word_default

(***************************************************************************)
(* C2.  In every step of the run loop the program counter is within        *)
(* 0..4000, the next fetch uses an index of at most 3999, and the operand  *)
(* address of the instruction executed is within 0..3999.                  *)
(***************************************************************************)
C2_AddressesInRange ==
    /\ computer.pc \in 0..MemorySize
    /\ status = "running" => computer.pc <= MemorySize - 1
    /\ decoded.kind \in OperandKinds => decoded.address \in 0..(MemorySize - 1)
    /\ ~(status = "panicked" /\ fault = "IndexOutOfBounds")

(***************************************************************************)
(* C3.  Whenever a jump is taken (jump with save, overflow jump,           *)
(* comparison jump) at program counter p, the jump-save register is        *)
(* afterwards the positive word whose bytes encode p + 1.                  *)
(***************************************************************************)
SavingJumpTaken ==
    /\ Executed
    /\ \/ decoded.kind = "Jmp" /\ decoded.save_address
       \/ decoded.kind = "JmpO" /\ before.overflow_flag # decoded.should_negate
       \/ decoded.kind = "JmpC"
            /\ JmpC_condition(decoded.operation, before.comparison_flag)

C3_JumpSavesReturnAddress ==
    SavingJumpTaken =>
        computer.rj = [positive |-> TRUE, bytes |-> BigEndian(before.pc + 1)]

(***************************************************************************)
(* C4.  For an instruction word with index byte i in 1..6, the address     *)
(* bound to the decoded instruction is the address field plus the          *)
(* magnitude in the two low-order bytes of index register i (the bytes     *)
(* LDi and ENTi write); with index byte 0 it is the address field.  (The   *)
(* jumps are left to C5.)                                                  *)
(***************************************************************************)
LowTwoBytes(w) == 256 * w.bytes[3] + w.bytes[4]

C4_IndexedAddress ==
    (Decoded /\ decoded.kind \in OperandKinds \cup ImmediateKinds) =>
        LET i == Word_index(fetched_word)
        IN  BoundAddress(decoded) =
              Word_address(fetched_word)
                + (IF i = 0 THEN 0
                   ELSE LowTwoBytes(register_for_index(before, i)))

(***************************************************************************)
(* C5.  Every decoded instruction that carries an address, the jumps       *)
(* included, is bound to the address field plus the offset decode_index    *)
(* reads from the selected index register.                                 *)
(***************************************************************************)
C5_EveryAddressIsOffset ==
    (Decoded /\ decoded.kind \in OperandKinds \cup ImmediateKinds \cup JumpKinds) =>
        BoundAddress(decoded) =
            Word_address(fetched_word)
              + decode_index(before, Word_index(fetched_word))

(***************************************************************************)
(* C6.  A comparison jump (opcode 39, field 4..9) is taken exactly when    *)
(* the comparison flag satisfies entry field-4 of the condition table.     *)
(***************************************************************************)
C6_ComparisonJumpTable ==
    (Executed /\ Word_opcode(fetched_word) = 39
              /\ Word_field(fetched_word) \in 4..9) =>
        IF ConditionTable(Word_field(fetched_word) - 4, before.comparison_flag)
        THEN WentTo(Word_address(fetched_word))
        ELSE FellThrough

(***************************************************************************)
(* C7.  A register jump (MIX opcodes 40..47: JA, J1..J6, JX; field 0..5)   *)
(* is taken exactly when compare_words of the register against a zero word *)
(* satisfies the entry of the condition table its field selects; when      *)
(* taken it saves pc + 1 in the jump-save register and goes to the target. *)
(***************************************************************************)
RegisterJumpRegister(c, opcode) ==
    CASE opcode = 40 -> c.ra
      [] opcode \in 41..46 -> register_for_index(c, opcode - 40)
      [] opcode = 47 -> c.rx

C7_RegisterJump ==
    (Executed /\ Word_opcode(fetched_word) \in 40..47
              /\ Word_field(fetched_word) \in 0..5
              /\ Word_index(fetched_word) = 0) =>
        LET register == RegisterJumpRegister(before, Word_opcode(fetched_word))
            flag == compare_words(register, Word_default, <<0, 5>>)
        IN  IF ConditionTable(Word_field(fetched_word), flag)
            THEN /\ WentTo(Word_address(fetched_word))
                 /\ computer.rj.bytes = BigEndian(before.pc + 1)
            ELSE FellThrough /\ computer.rj = before.rj

(***************************************************************************)
(* C8.  After an overflow jump (opcode 39, field 2 or 3) the overflow flag *)
(* is false whether or not the branch was taken, and the branch is taken   *)
(* exactly when the flag was true before (field 2) or false (field 3).     *)
(***************************************************************************)
C8_OverflowJump ==
    (Executed /\ Word_opcode(fetched_word) = 39
              /\ Word_field(fetched_word) \in {2, 3}) =>
        /\ computer.overflow_flag = FALSE
        /\ IF before.overflow_flag = (Word_field(fetched_word) = 2)
           THEN WentTo(Word_address(fetched_word))
           ELSE FellThrough

\* a jump on overflow found the flag set and was taken, to a cell of memory
C8_Witness ==
    /\ Executed
    /\ Word_opcode(fetched_word) = 39
    /\ Word_field(fetched_word) = 2
    /\ before.overflow_flag
    /\ ~computer.overflow_flag
    /\ computer.pc = Word_address(fetched_word) + 1

(***************************************************************************)
(* C9.  A fetched word with index byte 0 whose (opcode, field) pair is not *)
(* in the dispatch table executes as a no-operation: registers, flags and  *)
(* memory are unchanged and the program counter advances by exactly 1.     *)
(***************************************************************************)
C9_UnmappedIsNoOperation ==
    (Decoded /\ Word_index(fetched_word) = 0
             /\ ~InDispatchTable(Word_opcode(fetched_word),
                                 Word_field(fetched_word))) =>
        /\ fault = "none"
        /\ status = "running"
        /\ computer = [before EXCEPT !.pc = before.pc + 1]

\* an unmapped opcode was executed with the overflow flag set, the
\* comparison flag off its default and the accumulator loaded
C9_Witness ==
    /\ Decoded
    /\ Word_opcode(fetched_word) = 6
    /\ before.overflow_flag
    /\ before.ra # Word_default
    /\ computer.pc = before.pc + 1

(***************************************************************************)
(* C10.  LDA / LDX with field (L,R), 0 <= L <= R <= 5: the register's sign *)
(* becomes the memory word's if L = 0 and is unchanged otherwise; its      *)
(* bytes at word positions max(L,1)..R become the memory word's bytes at   *)
(* the same positions; its other bytes and the memory are unchanged.  With *)
(* (0,5) the register becomes a copy of the memory word.                   *)
(***************************************************************************)
LoadedRegister(c) == IF decoded.kind = "LoadA" THEN c.ra ELSE c.rx

C10_LoadCopiesField ==
    (Executed /\ Word_opcode(fetched_word) \in {8, 15}
              /\ decoded.field_specification[1] <= decoded.field_specification[2]
              /\ decoded.field_specification[2] <= 5) =>
        LET L == decoded.field_specification[1]
            R == decoded.field_specification[2]
            mem == memory_at(before, decoded.address)
            old == LoadedRegister(before)
            new == LoadedRegister(computer)
        IN  /\ new.positive = (IF L = 0 THEN mem.positive ELSE old.positive)
            /\ \A p \in 1..5 :
                  new.bytes[p - 1] =
                     IF Max(L, 1) <= p /\ p <= R THEN mem.bytes[p - 1]
                     ELSE old.bytes[p - 1]
            /\ computer.memory = before.memory
            /\ (L = 0 /\ R = 5) => new = mem

\* a load of the field (2:3) into a register that differed from the memory
\* word in its sign and in every byte, none of them zero
C10_Witness ==
    /\ Executed
    /\ Word_opcode(fetched_word) \in {8, 15}
    /\ decoded.field_specification = <<2, 3>>
    /\ LET mem == memory_at(before, decoded.address)
           old == LoadedRegister(before)
       IN  /\ old.positive # mem.positive
           /\ \A i \in 0..4 : old.bytes[i] # mem.bytes[i] /\ old.bytes[i] # 0

(***************************************************************************)
(* C11.  STA / STX / STi / STJ with field (L,R), 0 <= L <= R <= 5, and     *)
(* l = max(L,1)-1, r = R-1: when R >= 1 the memory bytes l..r become the   *)
(* register's low-order r-l+1 bytes in the same order; the memory word's   *)
(* sign becomes the register's if L = 0 and is unchanged otherwise; the    *)
(* memory bytes outside l..r, every other cell and every register are      *)
(* unchanged.  With (0,0) only the sign is stored.                         *)
(***************************************************************************)
StoredRegister(c, opcode) ==
    CASE opcode = 24 -> c.ra
      [] opcode \in 25..30 -> register_for_index(c, opcode - 24)
      [] opcode = 31 -> c.rx
      [] opcode = 32 -> c.rj

C11_StoreRightJustifies ==
    (Executed /\ Word_opcode(fetched_word) \in 24..32
              /\ decoded.field_specification[1] <= decoded.field_specification[2]
              /\ decoded.field_specification[2] <= 5) =>
        LET L == decoded.field_specification[1]
            R == decoded.field_specification[2]
            l == Max(L, 1) - 1
            r == R - 1
            reg == StoredRegister(before, Word_opcode(fetched_word))
            old == memory_at(before, decoded.address)
            new == memory_at(computer, decoded.address)
        IN  /\ new.positive = (IF L = 0 THEN reg.positive ELSE old.positive)
            /\ \A i \in 0..4 :
                  new.bytes[i] =
                     IF R >= 1 /\ l <= i /\ i <= r THEN reg.bytes[4 - (r - i)]
                     ELSE old.bytes[i]
            /\ \A a \in (DOMAIN before.memory \cup DOMAIN computer.memory)
                           \ {decoded.address} :
                  memory_at(computer, a) = memory_at(before, a)
            /\ [computer EXCEPT !.memory = before.memory]
                 = [before EXCEPT !.pc = before.pc + 1]

\* a store of the field (2:3) from a register that differed from the memory
\* word in its sign and in every byte, and whose two low-order bytes differ
\* from the bytes at the window's positions
C11_Witness ==
    /\ Executed
    /\ Word_opcode(fetched_word) \in 24..32
    /\ decoded.field_specification = <<2, 3>>
    /\ LET reg == StoredRegister(before, Word_opcode(fetched_word))
           old == memory_at(before, decoded.address)
       IN  /\ reg.positive # old.positive
           /\ \A i \in 0..4 : reg.bytes[i] # old.bytes[i]
           /\ <<reg.bytes[3], reg.bytes[4]>> # <<reg.bytes[1], reg.bytes[2]>>
           /\ memory_at(computer, decoded.address).bytes[1] = reg.bytes[3]

(***************************************************************************)
(* C12.  add_words over a field (L,R), 0 <= L <= R <= 5 and R >= 1, whose  *)
(* window has n bytes, with v1 and v2 the field values of the operands:    *)
(* the window of the result is the big-endian encoding of |v1+v2| mod      *)
(* 256^n, the result is negative exactly when L = 0 and v1+v2 < 0, and     *)
(* overflow is true exactly when |v1+v2| >= 256^n.  ADD writes that window *)
(* (and the sign if L = 0) into the accumulator, leaves the accumulator's  *)
(* other bytes unchanged and sets the overflow flag to that overflow.      *)
(***************************************************************************)
\* the bytes l..r of w read as one big-endian number (below 2^31 for r-l < 3)
WindowValue(w, l, r) ==
    LET acc[i \in l..r] ==
            IF i = l THEN w.bytes[l] ELSE 256 * acc[i - 1] + w.bytes[i]
    IN  acc[r]

Abs(v) == IF v < 0 THEN -v ELSE v

C12_AddWindow ==
    (Executed /\ Word_opcode(fetched_word) = 1
              /\ decoded.field_specification[1] <= decoded.field_specification[2]
              /\ decoded.field_specification[2] \in 1..5) =>
        LET fs  == decoded.field_specification
            l   == Max(fs[1], 1) - 1
            r   == fs[2] - 1
            n   == r - l + 1
            old == before.ra
            mem == memory_at(before, decoded.address)
            sum == NumAdd(Word_field_value(old, fs), Word_field_value(mem, fs))
            res == add_words(old, mem, fs)
            new == computer.ra
        IN  /\ \A i \in l..r : res.word.bytes[i] = sum.mag[r - i]
            /\ res.word.positive = ~(fs[1] = 0 /\ sum.neg)
            /\ res.overflow = (\E k \in n..(NumDigits - 1) : sum.mag[k] # 0)
            \* the same, in the integers, for the windows whose sums fit
            /\ n <= 3 =>
                 LET s1 == IF fs[1] = 0 /\ ~old.positive
                           THEN -WindowValue(old, l, r) ELSE WindowValue(old, l, r)
                     s2 == IF fs[1] = 0 /\ ~mem.positive
                           THEN -WindowValue(mem, l, r) ELSE WindowValue(mem, l, r)
                 IN  /\ WindowValue(res.word, l, r) = Abs(s1 + s2) % (256 ^ n)
                     /\ res.overflow = (Abs(s1 + s2) >= 256 ^ n)
                     /\ res.word.positive = ~(fs[1] = 0 /\ s1 + s2 < 0)
            /\ \A i \in 0..4 :
                 new.bytes[i] = IF l <= i /\ i <= r THEN res.word.bytes[i]
                                ELSE old.bytes[i]
            /\ new.positive = (IF fs[1] = 0 THEN res.word.positive
                               ELSE old.positive)
            /\ computer.overflow_flag = res.overflow
            /\ computer = [before EXCEPT !.ra = new,
                                         !.overflow_flag = res.overflow,
                                         !.pc = before.pc + 1]

\* an addition on the field (2:3) whose sum does not fit in the window's two
\* bytes, although it fits in a word: the overflow flag goes from off to on
C12_Witness ==
    /\ Executed
    /\ Word_opcode(fetched_word) = 1
    /\ decoded.field_specification = <<2, 3>>
    /\ ~before.overflow_flag
    /\ computer.overflow_flag
    /\ before.ra.bytes[0] # 0
    /\ computer.ra.bytes[0] = before.ra.bytes[0]

(***************************************************************************)
(* C13.  add_words, multiply_words and divide_words fail with              *)
(* ArithmeticDomainFault on a sign-only field (R = 0): an ADD, SUB, MUL or *)
(* DIV decoded with such a field aborts the run and leaves the             *)
(* accumulator, the extension register and the overflow flag as they were. *)
(***************************************************************************)
C13_SignOnlyFieldFaults ==
    (Decoded /\ Word_opcode(fetched_word) \in 1..4
             /\ decoded.field_specification[2] = 0
             /\ ~memory_index_panics(decoded.address)) =>
        /\ status = "panicked"
        /\ fault = "ArithmeticDomainFault"
        /\ computer.ra = before.ra
        /\ computer.rx = before.rx
        /\ computer.overflow_flag = before.overflow_flag

(***************************************************************************)
(* C14.  multiply_words(w1, w2, (L,R)), 0 <= L <= R <= 5 and R >= 1,       *)
(* returns (upper, lower) whose ten bytes, upper then lower, read as one   *)
(* big-endian number are |value of w1 over (0,5)| times |field value of    *)
(* w2|; both halves are negative exactly when L = 0 and the signed product *)
(* is negative, and both are positive otherwise.                           *)
(***************************************************************************)
\* the magnitude of the bytes l..r of w, as digits of weight 256^k
WindowMag(w, l, r) ==
    [k \in 0..(WideDigits - 1) |-> IF k <= r - l THEN w.bytes[r - k] ELSE 0]

\* the ten bytes of upper then lower, as digits of weight 256^k
DoubleMag(upper, lower) ==
    [k \in 0..(WideDigits - 1) |->
        IF k <= 4 THEN lower.bytes[4 - k]
        ELSE IF k <= 9 THEN upper.bytes[9 - k] ELSE 0]

\* p = a * b, decided by dividing p by b
IsProduct(p, a, b) ==
    IF WideIsZero(b) \/ WideIsZero(a) THEN WideIsZero(p)
    ELSE LET qr == WideDivMod(p, b)
         IN  qr.quo = a /\ WideIsZero(qr.rem)

C14_MultiplyWords ==
    (call.fn = "multiply_words" /\ call.done
        /\ call.args.field_specification[1] <= call.args.field_specification[2]
        /\ call.args.field_specification[2] \in 1..5) =>
        LET w1 == call.args.word1
            w2 == call.args.word2
            fs == call.args.field_specification
            a  == WindowMag(w1, 0, 4)
            b  == WindowMag(w2, Max(fs[1], 1) - 1, fs[2] - 1)
            negative == /\ fs[1] = 0
                        /\ w1.positive # w2.positive
                        /\ ~WideIsZero(a) /\ ~WideIsZero(b)
        IN  /\ call.outcome.fault = "none"
            /\ IsProduct(DoubleMag(call.outcome.value.upper,
                                   call.outcome.value.lower), a, b)
            /\ call.outcome.value.upper.positive = ~negative
            /\ call.outcome.value.lower.positive = ~negative

\* a product of a positive and a negative word over the whole field that
\* needs the upper half
C14_Witness ==
    /\ call.fn = "multiply_words"
    /\ call.done
    /\ call.args.field_specification = <<0, 5>>
    /\ call.args.word1.positive
    /\ call.outcome.fault = "none"
    /\ ~call.outcome.value.upper.positive
    /\ ~call.outcome.value.lower.positive
    /\ call.outcome.value.upper.bytes[0] # 0

(***************************************************************************)
(* C20.  single_word_left_shift and single_word_right_shift, for every     *)
(* amount a >= 0.  Non-cyclic: each result byte is the source byte a       *)
(* positions further right (left shift) or further left (right shift) when *)
(* that position is inside the word and 0 otherwise, so for every a >= 5   *)
(* all five bytes are 0.  Cyclic: positions are taken modulo 5, so a = 5   *)
(* returns the word unchanged.  The sign is never altered.                 *)
(***************************************************************************)
ShiftedBytes(word, offset, cycle) ==
    [i \in 0..4 |->
        IF cycle THEN word.bytes[(i + offset) % 5]
        ELSE IF i + offset \in 0..4 THEN word.bytes[i + offset]
        ELSE 0]

C20_SingleWordShift ==
    (call.fn \in {"single_word_left_shift", "single_word_right_shift"}
        /\ call.done) =>
        LET word == call.args.word
            a    == call.args.amount
            \* a right shift by a reads a positions to the left; in cyclic
            \* mode that is 4 * a positions to the right
            offset == IF call.fn = "single_word_left_shift" THEN a
                      ELSE IF call.args.cycle THEN 4 * a ELSE -a
        IN  /\ call.outcome.fault = "none"
            /\ call.outcome.word.positive = word.positive
            /\ call.outcome.word.bytes =
                   ShiftedBytes(word, offset, call.args.cycle)
            /\ (~call.args.cycle /\ a >= 5) =>
                   \A i \in 0..4 : call.outcome.word.bytes[i] = 0
            /\ (call.args.cycle /\ a = 5) => call.outcome.word = word

(***************************************************************************)
(* C15.  DIV divides the accumulator:extension pair by the memory operand  *)
(* exactly as it is stored at the resolved address: afterwards the         *)
(* accumulator is the quotient and the extension register the remainder of *)
(* divide_words(old accumulator, old extension, memory[address], field),   *)
(* so with a field that includes the sign the quotient is positive exactly *)
(* when the old accumulator's sign equals the memory operand's sign.       *)
(***************************************************************************)
C15_DivByStoredOperand ==
    (Executed /\ Word_opcode(fetched_word) = 4
              /\ decoded.field_specification[1] <= decoded.field_specification[2]
              /\ decoded.field_specification[2] \in 1..5) =>
        LET fs  == decoded.field_specification
            mem == memory_at(before, decoded.address)
            res == divide_words(before.ra, before.rx, mem, fs)
        IN  /\ computer.ra = res.div
            /\ computer.rx = res.rem
            /\ (fs[1] = 0 /\ ~res.divide_by_zero) =>
                  computer.ra.positive = (before.ra.positive = mem.positive)

(***************************************************************************)
(* C16.  divide_words with a divisor whose field value is 0 does not fail: *)
(* it returns the default word as quotient and as remainder, with          *)
(* divide_by_zero = true, and DIV then sets the overflow flag; for every   *)
(* nonzero divisor value divide_by_zero is false.  (Fields 0 <= L <= R <= 5.) *)
(***************************************************************************)
C16_DivideByZero ==
    (Decoded /\ Word_opcode(fetched_word) = 4
             /\ ~memory_index_panics(decoded.address)
             /\ decoded.field_specification[1] <= decoded.field_specification[2]
             /\ decoded.field_specification[2] <= 5) =>
        LET fs  == decoded.field_specification
            mem == memory_at(before, decoded.address)
            res == divide_words(before.ra, before.rx, mem, fs)
        IN  IF WideIsZero(WindowMag(mem, Max(fs[1], 1) - 1, fs[2] - 1))
               \/ fs[2] = 0
            THEN /\ res = [div |-> Word_default, rem |-> Word_default,
                           divide_by_zero |-> TRUE]
                 /\ fault = "none"
                 /\ computer = [before EXCEPT !.ra = Word_default,
                                              !.rx = Word_default,
                                              !.overflow_flag = TRUE,
                                              !.pc = before.pc + 1]
            ELSE /\ res.divide_by_zero = FALSE
                 /\ fault = "none" => computer.overflow_flag = FALSE

\* a division by a field of value 0 inside a nonzero word, with both
\* registers loaded and the overflow flag off
C16_Witness ==
    /\ Executed
    /\ Word_opcode(fetched_word) = 4
    /\ decoded.field_specification = <<0, 2>>
    /\ memory_at(before, decoded.address) = sample_reg
    /\ before.ra # Word_default
    /\ before.rx # Word_default
    /\ ~before.overflow_flag
    /\ computer.overflow_flag
    /\ computer.ra = Word_default

(***************************************************************************)
(* C17.  compare_words(w1, w2, (L,R)), 0 <= L <= R <= 5: EQUAL when R = 0; *)
(* otherwise, if L = 0 and the signs differ, GREATER when w1 is positive   *)
(* and LESS when it is negative; otherwise decided by the first byte of    *)
(* the window, left to right, where the words differ, and EQUAL when none  *)
(* differs.  compare_words(w, w, (0,5)) = EQUAL for every word, and CMPA / *)
(* CMPX / CMPi store exactly this result in the comparison flag, changing  *)
(* nothing else.                                                           *)
(***************************************************************************)
ComparedRegister(c, opcode) ==
    CASE opcode = 56 -> c.ra
      [] opcode \in 57..62 -> register_for_index(c, opcode - 56)
      [] opcode = 63 -> c.rx

\* the order of the bytes l..r of w1 and w2, from their first difference
RECURSIVE ByteOrder(_, _, _, _)
ByteOrder(w1, w2, l, r) ==
    IF l > r THEN "equal"
    ELSE IF w1.bytes[l] > w2.bytes[l] THEN "greater"
    ELSE IF w1.bytes[l] < w2.bytes[l] THEN "less"
    ELSE ByteOrder(w1, w2, l + 1, r)

C17_CompareWords ==
    (Executed /\ Word_opcode(fetched_word) \in 56..63
              /\ decoded.field_specification[1] <= decoded.field_specification[2]
              /\ decoded.field_specification[2] <= 5) =>
        LET fs  == decoded.field_specification
            l   == Max(fs[1], 1) - 1
            r   == fs[2] - 1
            w1  == ComparedRegister(before, Word_opcode(fetched_word))
            w2  == memory_at(before, decoded.address)
            result == compare_words(w1, w2, fs)
        IN  /\ result =
                 (IF fs[2] = 0 THEN "equal"
                  ELSE IF fs[1] = 0 /\ w1.positive # w2.positive
                  THEN (IF w1.positive THEN "greater" ELSE "less")
                  ELSE ByteOrder(w1, w2, l, r))
            \* for the same signs, the order of the bytes is the order of the
            \* magnitudes
            /\ (fs[2] >= 1 /\ r - l <= 2
                  /\ ~(fs[1] = 0 /\ w1.positive # w2.positive)) =>
                 /\ (result = "greater") =
                       (WindowValue(w1, l, r) > WindowValue(w2, l, r))
                 /\ (result = "equal") =
                       (WindowValue(w1, l, r) = WindowValue(w2, l, r))
            /\ compare_words(w1, w1, <<0, 5>>) = "equal"
            /\ compare_words(w2, w2, <<0, 5>>) = "equal"
            /\ computer = [before EXCEPT !.comparison_flag = result,
                                         !.pc = before.pc + 1]

\* a comparison over (1:5) of words whose first differing byte and a later
\* byte are ordered in opposite ways
C17_Witness ==
    /\ Executed
    /\ Word_opcode(fetched_word) \in 56..63
    /\ decoded.field_specification = <<1, 5>>
    /\ LET w1 == ComparedRegister(before, Word_opcode(fetched_word))
           w2 == memory_at(before, decoded.address)
       IN  /\ w1.bytes[0] > w2.bytes[0]
           /\ w1.bytes[3] < w2.bytes[3]
    /\ before.comparison_flag # "greater"
    /\ computer.comparison_flag = "greater"

\* an iteration of run has been attempted and it fetched a word
Fetched == (status # "running" \/ Decoded) /\ ~memory_index_panics(before.pc)

(***************************************************************************)
(* C18: when the fetched word's index byte is outside 0..6, whatever its   *)
(* opcode, decoding fails with InvalidIndex before any instruction is      *)
(* executed: the run is aborted, and registers, flags, memory and the      *)
(* program counter are as they were before the fetch.  No other word       *)
(* raises InvalidIndex.                                                    *)
(***************************************************************************)
C18_InvalidIndex ==
    /\ (Fetched /\ Word_index(fetched_word) \notin 0..6) =>
          /\ status = "panicked"
          /\ fault = "InvalidIndex"
          /\ ~Decoded
          /\ computer = before
    /\ (call.fn = "none" /\ fault = "InvalidIndex") =>
          /\ Fetched
          /\ Word_index(fetched_word) \notin 0..6

\* a HLT and a store with index bytes 7 and 255 were rejected after the
\* set-up instructions had changed the registers
C18_Witness ==
    /\ Fetched
    /\ fault = "InvalidIndex"
    /\ Word_index(fetched_word) \in {7, 255}
    /\ Word_opcode(fetched_word) \in {5, 24}
    /\ computer = before
    /\ computer.ra # Word_default
    /\ computer.pc > 0

(***************************************************************************)
(* C19: an index-register load whose address is a memory cell and whose    *)
(* field (L,R) has 1 <= L <= R <= 3 fails with InvalidFieldSpec and leaves *)
(* the index register, the other registers, the flags, the memory and the  *)
(* program counter as they were; with any other field 0 <= L <= R <= 5 it  *)
(* does not fail.                                                          *)
(***************************************************************************)
C19_LoadIndexField ==
    (Decoded /\ decoded.kind = "LoadI"
        /\ ~memory_index_panics(decoded.address)) =>
      LET L == decoded.field_specification[1]
          R == decoded.field_specification[2]
      IN  /\ (1 <= L /\ L <= R /\ R <= 3) =>
                /\ status = "panicked"
                /\ fault = "InvalidFieldSpec"
                /\ computer = before
          /\ (0 <= L /\ L <= R /\ R <= 5 /\ ~(1 <= L /\ R <= 3)) =>
                /\ status = "running"
                /\ fault = "none"

\* LD1 ADDRESS(2:3) was rejected after ENT1 had set the index register
C19_Witness ==
    /\ Decoded
    /\ decoded.kind = "LoadI"
    /\ decoded.index = 1
    /\ decoded.field_specification = <<2, 3>>
    /\ fault = "InvalidFieldSpec"
    /\ computer.ri1 # Word_default
    /\ computer = before

(***************************************************************************)
(* C21: double_word_left_shift and double_word_right_shift treat the five  *)
(* bytes of the first word followed by the five bytes of the second as one *)
(* ten-byte sequence and shift it by `amount` byte positions, filling the  *)
(* vacated end with 0, for every amount >= 0; for every amount >= 10 both  *)
(* result words have all bytes 0; each result word keeps the sign of the   *)
(* corresponding argument.                                                 *)
(***************************************************************************)
DoubleShiftedBytes(word1, word2, offset) ==
    [i \in 0..9 |->
        IF i + offset \in 0..9 THEN DoubleVals(word1, word2)[i + offset] ELSE 0]

C21_DoubleWordShift ==
    (call.fn \in {"double_word_left_shift", "double_word_right_shift"}
        /\ call.done) =>
        LET word1 == call.args.word1
            word2 == call.args.word2
            a == call.args.amount
            offset == IF call.fn = "double_word_left_shift" THEN a ELSE -a
            expected == DoubleShiftedBytes(word1, word2, offset)
        IN  /\ call.outcome.fault = "none"
            /\ call.outcome.word1.positive = word1.positive
            /\ call.outcome.word2.positive = word2.positive
            /\ \A i \in 0..4 :
                  /\ call.outcome.word1.bytes[i] = expected[i]
                  /\ call.outcome.word2.bytes[i] = expected[i + 5]
            /\ a >= 10 =>
                  \A i \in 0..4 : /\ call.outcome.word1.bytes[i] = 0
                                   /\ call.outcome.word2.bytes[i] = 0

(***************************************************************************)
(* C22: ENTA and ENTX (opcodes 48 and 55, fields 2 and 3) with resolved    *)
(* immediate M and instruction sign s, inverted for the negating variant   *)
(* (field 3), replace the whole register by the word of sign s whose five  *)
(* bytes are the big-endian encoding of M, whatever the register held; the *)
(* other registers, the overflow flag, the comparison flag and the memory  *)
(* are unchanged.                                                          *)
(***************************************************************************)
C22_EnterReplacesRegister ==
    (Decoded /\ decoded.kind \in {"EntA", "EntX"}) =>
        LET M == decoded.value
            s == IF Word_field(fetched_word) = 3 THEN ~fetched_word.positive
                 ELSE fetched_word.positive
            word == [positive |-> s, bytes |-> BigEndian(M)]
        IN  /\ fault = "none"
            /\ Word_opcode(fetched_word) \in {48, 55}
            /\ Word_field(fetched_word) \in {2, 3}
            /\ Word_index(fetched_word) = 0 => M = Word_address(fetched_word)
            /\ computer =
                  IF decoded.kind = "EntA"
                  THEN [before EXCEPT !.ra = word, !.pc = before.pc + 1]
                  ELSE [before EXCEPT !.rx = word, !.pc = before.pc + 1]

\* ENNA 1000 replaced an accumulator that LDA had filled
C22_Witness ==
    /\ Executed
    /\ decoded.kind = "EntA"
    /\ Word_field(fetched_word) = 3
    /\ fetched_word.positive
    /\ before.ra = sample_mem
    /\ computer.ra = Word_new(FALSE, <<0, 0, 0, 3, 232>>)

\* the last iteration executed a jump and its branch was taken
JumpTaken ==
    /\ Executed
    /\ decoded.kind \in JumpKinds
    /\ CASE decoded.kind = "Jmp"  -> TRUE
         [] decoded.kind = "JmpO" -> before.overflow_flag # decoded.should_negate
         [] decoded.kind = "JmpC" ->
                JmpC_condition(decoded.operation, before.comparison_flag)

(***************************************************************************)
(* C23: when the run loop takes a jump, of any variant, to a target T with *)
(* T < 4000, the next word that is fetched and executed is memory[T]: the  *)
(* loop goes on, with the program counter at T.                            *)
(***************************************************************************)
C23_JumpFetchesTarget ==
    (JumpTaken /\ decoded.address < 4000) =>
        /\ status = "running"
        /\ computer.pc = decoded.address

(***************************************************************************)
(* C24: after MUL the accumulator holds the upper word and the extension   *)
(* register the lower word of the double-word product returned by          *)
(* multiply_words(old accumulator, sign-negated memory operand, field);    *)
(* the overflow flag is left unchanged.                                    *)
(***************************************************************************)
C24_MultRegisters ==
    (Executed /\ decoded.kind = "Mult") =>
        LET operand == Word_negate(memory_at(before, decoded.address))
            res == multiply_words(before.ra, operand, decoded.field_specification)
        IN  /\ computer.ra = res.upper
            /\ computer.rx = res.lower
            /\ computer.overflow_flag = before.overflow_flag

(***************************************************************************)
(* C25: for every divisor word whose field value d is nonzero, of either   *)
(* sign, and every hi, lo with hi.field(1,5) < |d|, the quotient and the   *)
(* remainder returned by divide_words have byte magnitudes q and r with    *)
(* hi.field(1,5) * 2^40 + lo.field(1,5) = q * |d| + r and 0 <= r < |d|:    *)
(* the bytes are a magnitude, never a two's-complement pattern.            *)
(***************************************************************************)
C25_DivideWords ==
    (call.fn = "divide_words" /\ call.done) =>
        LET fs == call.args.field_specification
            d  == WindowMag(call.args.word3, Max(fs[1], 1) - 1, fs[2] - 1)
            hi == WindowMag(call.args.word1, 0, 4)
            n  == DoubleMag(call.args.word1, call.args.word2)
        IN  (~WideIsZero(d) /\ MagLess(hi, d)) =>
                /\ call.outcome.fault = "none"
                /\ ~call.outcome.value.divide_by_zero
                /\ LET q == WindowMag(call.outcome.value.div, 0, 4)
                       r == WindowMag(call.outcome.value.rem, 0, 4)
                   IN  /\ MagLess(r, d)
                       /\ WideMul(q, d) = WideSub(n, r)

(***************************************************************************)
(* C26: for every field (L,R) with 0 <= L <= R <= 5 and R >= 1, fields     *)
(* without the sign (L >= 1) included, executing ADD and then SUB with the *)
(* same memory operand and the same field, neither of them overflowing,    *)
(* restores the accumulator's original field value.                        *)
(***************************************************************************)
C26_SubUndoesAdd ==
    (call.fn = "Add_Sub" /\ call.step = 2 /\ call.fault = "none"
        /\ call.field_specification[2] >= 1
        /\ ~call.add_overflow /\ ~computer.overflow_flag) =>
        Word_field_value(computer.ra, call.field_specification)
            = Word_field_value(before.ra, call.field_specification)

\* the order of two i64 values
NumOrder(x, y) ==
    IF x = y THEN "equal"
    ELSE IF x.neg # y.neg THEN (IF x.neg THEN "less" ELSE "greater")
    ELSE IF x.neg THEN (IF MagLess(y.mag, x.mag) THEN "less" ELSE "greater")
    ELSE IF MagLess(x.mag, y.mag) THEN "less" ELSE "greater"

C28_IndexHighBytesZero ==
    \A i \in 1..6 : \A k \in 0..2 :
        register_for_index(computer, i).bytes[k] = 0

\* the register an IncA, IncX or IncI instruction adds to
IncTarget(c) ==
    CASE decoded.kind = "IncA" -> c.ra
      [] decoded.kind = "IncX" -> c.rx
      [] decoded.kind = "IncI" -> register_for_index(c, decoded.index)

(***************************************************************************)
(* C29: INCA, INCX and INCi (and, with the instruction sign inverted, the  *)
(* decrement variants) with immediate M and instruction sign s set the     *)
(* register to the signed sum of its old (0,5) value and the signed        *)
(* immediate, and set the overflow flag to true exactly when the magnitude *)
(* of that sum does not fit in five bytes (the register then keeps the     *)
(* five low-order bytes of the magnitude).                                 *)
(***************************************************************************)
C29_IncSignedSum ==
    (Decoded /\ decoded.kind \in {"IncA", "IncX", "IncI"}) =>
        LET s    == IF Word_field(fetched_word) = 1 THEN ~fetched_word.positive
                    ELSE fetched_word.positive
            imm  == NumNorm(~s, NumFromNat(decoded.value).mag)
            sum  == NumAdd(Word_field_value(IncTarget(before), <<0, 5>>), imm)
            fits == \A k \in DOMAIN sum.mag : k >= 5 => sum.mag[k] = 0
        IN  /\ fault = "none"
            /\ Word_field(fetched_word) \in {0, 1}
            /\ Word_index(fetched_word) = 0 =>
                   decoded.value = Word_address(fetched_word)
            /\ computer.overflow_flag = ~fits
            /\ IncTarget(computer).positive = ~sum.neg
            /\ \A i \in 0..4 : IncTarget(computer).bytes[i] = sum.mag[4 - i]

\* INCA 1 on the largest word: the sum needs a sixth byte
C29_Witness ==
    /\ Executed
    /\ decoded.kind = "IncA"
    /\ decoded.value = 1
    /\ before.ra = largest_word
    /\ ~before.overflow_flag
    /\ computer.overflow_flag
    /\ computer.ra = Word_new(TRUE, <<0, 0, 0, 0, 0>>)

(***************************************************************************)
(* C30: the no-save jump (opcode 39, field 1) sets the program counter to  *)
(* its target, from where the run loop goes on, and leaves the jump-save   *)
(* register unchanged; a comparison jump or overflow jump whose condition  *)
(* is false leaves the jump-save register and the program counter as they  *)
(* were, so that the run loop continues with the instruction at the        *)
(* following address; and no jump of any kind changes the accumulator, the *)
(* extension register, the index registers, the comparison flag or memory. *)
(***************************************************************************)
C30_JumpsLeaveTheRest ==
    /\ (Decoded /\ Word_opcode(fetched_word) = 39
               /\ Word_field(fetched_word) = 1) =>
           /\ fault = "none"
           /\ decoded.kind = "Jmp"
           /\ decoded.address = Word_address(fetched_word)
           /\ WentTo(decoded.address)
           /\ computer.rj = before.rj
    /\ (Decoded /\ decoded.kind \in {"JmpO", "JmpC"} /\ ~JumpTaken) =>
           /\ fault = "none"
           /\ FellThrough
           /\ computer.rj = before.rj
    /\ (Decoded /\ decoded.kind \in JumpKinds) =>
           computer = [before EXCEPT !.pc = computer.pc,
                                     !.rj = computer.rj,
                                     !.overflow_flag = computer.overflow_flag]

\* JMP without saving, taken from a machine whose accumulator is loaded
C30_Witness ==
    /\ Executed
    /\ Word_opcode(fetched_word) = 39
    /\ Word_field(fetched_word) = 1
    /\ before.ra = sample_mem
    /\ decoded.address = MemorySize - 1
    /\ computer.pc = MemorySize
    /\ computer.rj = Word_default

====
